---- MODULE Spec2Model ----
(***************************************************************************)
(* Model of the sw-rs Microcontroller aggregate                            *)
(* (src/src/microcontroller/mod.rs), its validator and its conversion to   *)
(* and from the document form (src/src/microcontroller/mc_serde).          *)
(*                                                                         *)
(* A Microcontroller is a record with the fields of the Rust struct that   *)
(* take part in id management and validation.  Option<u32> values are      *)
(* sequences of length 0 (None) or 1 (Some).  A document is the record of  *)
(* the attributes and element lists of the <microprocessor> text.          *)
(***************************************************************************)
EXTENDS Integers, Sequences, FiniteSets, TLC

VARIABLES mc, last, issued_c, issued_n, retired_c, retired_n,
          node, tree, conv,
          stream, mesh

\* the Microcontroller under change; the component under conversion; the
\* mesh stream under decoding
mc_vars == <<mc, last, issued_c, issued_n, retired_c, retired_n>>

node_vars == <<node, tree, conv>>

mesh_vars == <<stream, mesh>>

vars == <<mc_vars, node_vars, mesh_vars>>

(***************************************************************************)
(* Bounds of the model.                                                    *)
(***************************************************************************)
\* add_component / add_io are explored while the counters are below MaxId
MaxId == 3
\* longest <nodes>, <components> and <components_bridge> list of a document
\* handed to from_xml_str
MaxDocLen == 2

\* width / length values tried: both sides of each end of 1..=6
SizeVals == {0, 1, 6, 7}

\* u32::MAX, the value a wrapping `0 - 1` yields.  TLC integers are 32 bit
\* signed, so the largest representable value stands for it; every id and
\* counter of the model is below it, as every u32 is at most u32::MAX.
U32_MAX == 2147483647

(***************************************************************************)
(* Option<u32>                                                             *)
(***************************************************************************)
None == << >>

Some(x) == << x >>

is_none(o) == Len(o) = 0

unwrap_or(o, d) == IF Len(o) = 0 THEN d ELSE o[1]

Range(s) == { s[i] : i \in 1..Len(s) }

SeqsUpTo(S, n) == UNION { [1..k -> S] : k \in 0..n }

\* Vec::remove(idx), 1-based
RemoveAt(s, idx) == [ i \in 1..(Len(s) - 1) |-> IF i < idx THEN s[i] ELSE s[i + 1] ]

\* Iterator::position: the first index whose element satisfies the test, 0 if none
PositionOfNodeId(io, id) ==
    IF \E i \in 1..Len(io) : io[i].design.node_id = id
    THEN CHOOSE i \in 1..Len(io) :
            /\ io[i].design.node_id = id
            /\ \A j \in 1..(i - 1) : io[j].design.node_id # id
    ELSE 0

PositionOfId(cs, id) ==
    IF \E i \in 1..Len(cs) : cs[i].id = id
    THEN CHOOSE i \in 1..Len(cs) :
            /\ cs[i].id = id
            /\ \A j \in 1..(i - 1) : cs[j].id # id
    ELSE 0

PositionOf(s, x) ==
    IF \E i \in 1..Len(s) : s[i] = x
    THEN CHOOSE i \in 1..Len(s) : s[i] = x /\ \A j \in 1..(i - 1) : s[j] # x
    ELSE 0

(***************************************************************************)
(* MCValidationError and Microcontroller::validate                         *)
(***************************************************************************)
Ok == [variant |-> "Ok", a |-> 0, b |-> 0]

Err(v, x, y) == [variant |-> v, a |-> x, b |-> y]

NoMC == [absent |-> TRUE]

size_in_range(x) == x >= 1 /\ x <= 6

RECURSIVE validate_io(_, _, _)
\* validate_io with the bridge-order check placed before the uniqueness check
validate_io_bridge_first(m, i, unique) ==
    IF i > Len(m.io) THEN Ok
    ELSE LET ion == m.io[i] IN
         IF ~ \E k \in 1..Len(m.components_bridge_order) :
                        m.components_bridge_order[k] = ion.logic.id
         THEN Err("MissingIONodeComponentOrder", ion.logic.id, 0)
         ELSE IF ion.design.node_id \in unique
         THEN Err("DuplicateIONodeId", ion.design.node_id, 0)
         ELSE IF ion.design.node_id > unwrap_or(m.id_counter_node, 0)
         THEN Err("NodeIdTooHigh", ion.design.node_id, unwrap_or(m.id_counter_node, 0))
         ELSE validate_io(m, i + 1, unique \cup {ion.design.node_id})

validate_io(m, i, unique) ==
    IF i > Len(m.io) THEN Ok
    ELSE LET ion == m.io[i] IN
         IF ion.design.node_id \in unique
         THEN Err("DuplicateIONodeId", ion.design.node_id, 0)
         ELSE IF ~ \E k \in 1..Len(m.components_bridge_order) :
                        m.components_bridge_order[k] = ion.logic.id
         THEN Err("MissingIONodeComponentOrder", ion.logic.id, 0)
         ELSE IF ion.design.node_id > unwrap_or(m.id_counter_node, 0)
         THEN Err("NodeIdTooHigh", ion.design.node_id, unwrap_or(m.id_counter_node, 0))
         ELSE validate_io(m, i + 1, unique \cup {ion.design.node_id})

RECURSIVE validate_components(_, _, _)
\* validate_components without the uniqueness check
validate_components_no_unique(m, i, unique) ==
    IF i > Len(m.components) THEN Ok
    ELSE LET c == m.components[i] IN
         IF c.id > m.id_counter
         THEN Err("NodeIdTooHigh", c.id, m.id_counter)
         ELSE validate_components(m, i + 1, unique \cup {c.id})

validate_components(m, i, unique) ==
    IF i > Len(m.components) THEN Ok
    ELSE LET c == m.components[i] IN
         IF c.id \in unique
         THEN Err("DuplicateComponentId", c.id, 0)
         ELSE IF c.id > m.id_counter
         THEN Err("NodeIdTooHigh", c.id, m.id_counter)
         ELSE validate_components(m, i + 1, unique \cup {c.id})

validate(m) ==
    IF ~ size_in_range(m.width) \/ ~ size_in_range(m.length)
    THEN Err("InvalidSize", m.width, m.length)
    ELSE LET r == validate_io(m, 1, {}) IN
         IF r # Ok THEN r ELSE validate_components(m, 1, {})

(***************************************************************************)
(* Microcontroller::new                                                    *)
(***************************************************************************)
new_value(w, l) ==
    [ width |-> w, length |-> l,
      id_counter |-> 0, id_counter_node |-> None,
      io |-> << >>, components_bridge_order |-> << >>, components |-> << >> ]

(***************************************************************************)
(* add_component, add_io                                                   *)
(***************************************************************************)
add_component(m) ==
    LET component_id == m.id_counter + 1 IN
    [ m EXCEPT !.id_counter = component_id,
               !.components = Append(m.components, [id |-> component_id]) ]

add_io(m) ==
    LET node_id      == unwrap_or(m.id_counter_node, 0) + 1
        component_id == m.id_counter + 1
    IN [ m EXCEPT !.id_counter_node = Some(node_id),
                  !.id_counter = component_id,
                  !.io = Append(m.io, [ design |-> [node_id |-> node_id],
                                        logic  |-> [id |-> component_id] ]),
                  !.components_bridge_order =
                        Append(m.components_bridge_order, component_id) ]

(***************************************************************************)
(* remove_component_id, remove_component, remove_io_id, remove_io          *)
(*                                                                         *)
(* `x -= 1` on a u32 that is 0 panics when the build has overflow checks   *)
(* (the components.remove / io.remove before it has already happened) and  *)
(* wraps to u32::MAX when it has none.  Each operator returns the          *)
(* microcontroller after the call, the returned Option and whether the     *)
(* call panicked.                                                          *)
(***************************************************************************)
\* remove_component_id that decrements id_counter on every removal
remove_component_id_always_dec(m, id, overflow_checks) ==
    LET cidx == PositionOfId(m.components, id) IN
    IF cidx = 0
    THEN [mc |-> m, ret |-> "None", panicked |-> FALSE]
    ELSE LET m1 == [m EXCEPT !.components = RemoveAt(m.components, cidx)]
         IN IF m1.id_counter = 0
            THEN [mc |-> m1, ret |-> "None", panicked |-> TRUE]
            ELSE [mc |-> [m1 EXCEPT !.id_counter = m1.id_counter - 1],
                  ret |-> "Some", panicked |-> FALSE]

remove_component_id(m, id, overflow_checks) ==
    LET cidx == PositionOfId(m.components, id) IN
    IF cidx = 0
    THEN [mc |-> m, ret |-> "None", panicked |-> FALSE]
    ELSE LET c  == m.components[cidx]
             m1 == [m EXCEPT !.components = RemoveAt(m.components, cidx)]
         IN IF m1.id_counter = c.id
            THEN IF m1.id_counter = 0
                 THEN IF overflow_checks
                      THEN [mc |-> m1, ret |-> "None", panicked |-> TRUE]
                      ELSE [mc |-> [m1 EXCEPT !.id_counter = U32_MAX],
                            ret |-> "Some", panicked |-> FALSE]
                 ELSE [mc |-> [m1 EXCEPT !.id_counter = m1.id_counter - 1],
                       ret |-> "Some", panicked |-> FALSE]
            ELSE [mc |-> m1, ret |-> "Some", panicked |-> FALSE]

remove_component(m, index, overflow_checks) ==
    IF index >= 1 /\ index <= Len(m.components)
    THEN remove_component_id(m, m.components[index].id, overflow_checks)
    ELSE [mc |-> m, ret |-> "None", panicked |-> FALSE]

remove_io_id(m, id, overflow_checks) ==
    LET idx == PositionOfNodeId(m.io, id) IN
    IF idx = 0
    THEN [mc |-> m, ret |-> "None", panicked |-> FALSE]
    ELSE LET ion == m.io[idx]
             m1  == [m EXCEPT !.io = RemoveAt(m.io, idx)]
         IN IF ~ is_none(m1.id_counter_node) /\ m1.id_counter_node[1] = ion.design.node_id
            THEN IF m1.id_counter_node[1] = 0
                 THEN IF overflow_checks
                      THEN [mc |-> m1, ret |-> "None", panicked |-> TRUE]
                      ELSE LET m2 == [m1 EXCEPT !.id_counter_node = Some(U32_MAX)]
                               r  == remove_component_id(m2, ion.logic.id, overflow_checks)
                           IN [mc |-> r.mc, ret |-> "Some", panicked |-> r.panicked]
                 ELSE LET m2 == [m1 EXCEPT !.id_counter_node = Some(m1.id_counter_node[1] - 1)]
                          r  == remove_component_id(m2, ion.logic.id, overflow_checks)
                      IN [mc |-> r.mc, ret |-> "Some", panicked |-> r.panicked]
            ELSE LET r == remove_component_id(m1, ion.logic.id, overflow_checks)
                 IN [mc |-> r.mc, ret |-> "Some", panicked |-> r.panicked]

remove_io(m, index, overflow_checks) ==
    IF index >= 1 /\ index <= Len(m.io)
    THEN remove_io_id(m, m.io[index].design.node_id, overflow_checks)
    ELSE [mc |-> m, ret |-> "None", panicked |-> FALSE]

(***************************************************************************)
(* The document and MicrocontrollerSerDe                                   *)
(*                                                                         *)
(* A document holds what the text carries: width and length, the optional  *)
(* id_counter and id_counter_node attributes (None when the attribute is   *)
(* not written), the <n> entries of <nodes> and the <c> entries of         *)
(* <components> and <components_bridge>, each in text order.               *)
(***************************************************************************)
\* de_document reading an absent id_counter_node as Some(0)
de_document_node_counter_zero(d) ==
    [ width |-> d.width, length |-> d.length,
      id_counter |-> unwrap_or(d.id_counter, 0),
      id_counter_node |-> Some(unwrap_or(d.id_counter_node, 0)),
      nodes |-> d.nodes,
      components |-> d.components,
      components_bridge |-> d.components_bridge ]

\* serde `default` on id_counter: an absent attribute reads as 0;
\* id_counter_node stays an Option
de_document(d) ==
    [ width |-> d.width, length |-> d.length,
      id_counter |-> unwrap_or(d.id_counter, 0),
      id_counter_node |-> d.id_counter_node,
      nodes |-> d.nodes,
      components |-> d.components,
      components_bridge |-> d.components_bridge ]

\* skip_serializing_if = "is_default" on id_counter, "Option::is_none" on
\* id_counter_node
se_document(sd) ==
    [ width |-> sd.width, length |-> sd.length,
      id_counter |-> IF sd.id_counter = 0 THEN None ELSE Some(sd.id_counter),
      id_counter_node |-> sd.id_counter_node,
      nodes |-> sd.nodes,
      components |-> sd.components,
      components_bridge |-> sd.components_bridge ]

\* the closure of From<MicrocontrollerSerDe>: each node takes the first
\* remaining bridge component with its component_id out of the list; the
\* expect() panics when there is none
RECURSIVE io_from_nodes(_, _, _, _)
io_from_nodes(nodes, i, bridge, acc) ==
    IF i > Len(nodes) THEN [io |-> acc, panicked |-> FALSE]
    ELSE LET n     == nodes[i]
             c_idx == PositionOfId(bridge, n.component_id)
         IN IF c_idx = 0
            THEN [io |-> acc, panicked |-> TRUE]
            ELSE io_from_nodes(nodes, i + 1, RemoveAt(bridge, c_idx),
                               Append(acc, [ design |-> [node_id |-> n.id],
                                             logic  |-> bridge[c_idx] ]))

bridge_order_of(bridge) == [ i \in 1..Len(bridge) |-> bridge[i].id ]

mc_from_serde(sd) ==
    LET r == io_from_nodes(sd.nodes, 1, sd.components_bridge, << >>) IN
    [ mc |-> [ width |-> sd.width, length |-> sd.length,
               id_counter |-> sd.id_counter,
               id_counter_node |-> sd.id_counter_node,
               io |-> r.io,
               components_bridge_order |-> bridge_order_of(sd.components_bridge),
               components |-> sd.components ],
      panicked |-> r.panicked ]

\* slice::sort_by_key (stable) with key = position of the id in
\* components_bridge_order
RECURSIVE insert_by_key(_, _, _)
insert_by_key(sorted, x, order) ==
    IF Len(sorted) = 0 THEN << x >>
    ELSE IF PositionOf(order, sorted[Len(sorted)].id) <= PositionOf(order, x.id)
         THEN Append(sorted, x)
         ELSE Append(insert_by_key(SubSeq(sorted, 1, Len(sorted) - 1), x, order),
                     sorted[Len(sorted)])

RECURSIVE sort_by_key(_, _)
sort_by_key(v, order) ==
    IF Len(v) = 0 THEN << >>
    ELSE insert_by_key(sort_by_key(SubSeq(v, 1, Len(v) - 1), order), v[Len(v)], order)

\* From<Microcontroller> for MicrocontrollerSerDe; position(..).unwrap()
\* panics for a bridge id that components_bridge_order does not hold
serde_from_mc(m) ==
    LET logic == [ i \in 1..Len(m.io) |-> m.io[i].logic ] IN
    [ sd |-> [ width |-> m.width, length |-> m.length,
               id_counter |-> m.id_counter,
               id_counter_node |-> m.id_counter_node,
               nodes |-> [ i \in 1..Len(m.io) |->
                            [ id |-> m.io[i].design.node_id,
                              component_id |-> m.io[i].logic.id ] ],
               components |-> m.components,
               components_bridge |-> sort_by_key(logic, m.components_bridge_order) ],
      panicked |-> \E i \in 1..Len(logic) :
                      PositionOf(m.components_bridge_order, logic[i].id) = 0 ]

(***************************************************************************)
(* to_xml_string, from_xml_str                                             *)
(***************************************************************************)
\* to_xml_string without the validate() call
to_xml_string_unchecked(m) ==
    LET r == serde_from_mc(m) IN
    IF r.panicked
    THEN [status |-> "panic", err |-> Ok, doc |-> None]
    ELSE [status |-> "Ok", err |-> Ok, doc |-> Some(se_document(r.sd))]

to_xml_string(m) ==
    LET v == validate(m) IN
    IF v # Ok
    THEN [status |-> "Err", err |-> v, doc |-> None]
    ELSE LET r == serde_from_mc(m) IN
         IF r.panicked
         THEN [status |-> "panic", err |-> Ok, doc |-> None]
         ELSE [status |-> "Ok", err |-> Ok, doc |-> Some(se_document(r.sd))]

from_xml_str(d) ==
    LET r == mc_from_serde(de_document(d)) IN
    IF r.panicked
    THEN [status |-> "panic", err |-> Ok, mc |-> NoMC, decoded |-> None]
    ELSE LET v == validate(r.mc) IN
         IF v # Ok
         THEN [status |-> "Err", err |-> v, mc |-> NoMC, decoded |-> Some(r.mc)]
         ELSE [status |-> "Ok", err |-> Ok, mc |-> r.mc, decoded |-> Some(r.mc)]

(***************************************************************************)
(* The documents handed to from_xml_str                                    *)
(***************************************************************************)
\* the ids and counter values written in the documents: 0, the lowest u32,
\* and one id above it
DocIds == {0, 1}

\* the width and length written in the documents: one size in range, one
\* out of range (new is tried on every pair of SizeVals)
DocSizes == { <<1, 6>>, <<7, 0>> }

\* the documents with a size of `sizes` and at most n entries in each list
DocSet(sizes, n) ==
    { [ width |-> sz[1], length |-> sz[2],
        id_counter |-> ic, id_counter_node |-> icn,
        nodes |-> ns, components |-> cs, components_bridge |-> bs ] :
      sz \in sizes,
      ic \in {None} \cup { Some(x) : x \in DocIds },
      icn \in {None} \cup { Some(x) : x \in DocIds },
      ns \in SeqsUpTo([id : DocIds, component_id : DocIds], n),
      cs \in SeqsUpTo([id : DocIds], n),
      bs \in SeqsUpTo([id : DocIds], n) }

(***************************************************************************)
(* State                                                                   *)
(*                                                                         *)
(* mc        the Microcontroller the caller holds, NoMC before one exists  *)
(* last      the last call: its name, its outcome, the id it was given or  *)
(*           it allocated, the document it read or wrote and the model     *)
(*           from_xml_str decoded before validating it                     *)
(* issued_c, issued_n    every component / IO node id allocated so far     *)
(* retired_c, retired_n  the ids freed by a removal that left the counter  *)
(*                       as it was                                         *)
(***************************************************************************)
Call(op, status, err, id, doc, decoded) ==
    [op |-> op, status |-> status, err |-> err, id |-> id, doc |-> doc, decoded |-> decoded]

LiveC(m) == { m.components[i].id : i \in 1..Len(m.components) }
            \cup { m.io[i].logic.id : i \in 1..Len(m.io) }

LiveN(m) == { m.io[i].design.node_id : i \in 1..Len(m.io) }

Init ==
    /\ mc = NoMC
    /\ last = Call("none", "Ok", Ok, 0, None, None)
    /\ issued_c = {} /\ issued_n = {}
    /\ retired_c = {} /\ retired_n = {}
    /\ node = None /\ tree = None
    /\ conv = [op |-> "none", status |-> "Ok", src |-> None, n |-> 0]
    /\ stream = None
    /\ mesh = [status |-> "none", variant |-> "none", expected |-> None,
               actual |-> None, value |-> None]

Alive == mc # NoMC /\ last.status # "panic"

\* a Microcontroller is obtained once, by new or by from_xml_str
Fresh == mc = NoMC /\ last.op = "none"

New ==
    /\ Fresh
    /\ \E w \in SizeVals, l \in SizeVals :
          LET m == new_value(w, l)
              v == validate(m)
          IN /\ mc' = IF v = Ok THEN m ELSE NoMC
             /\ last' = Call("new", IF v = Ok THEN "Ok" ELSE "Err", v, 0, None, Some(m))
    /\ issued_c' = {} /\ issued_n' = {}
    /\ retired_c' = {} /\ retired_n' = {}
    /\ UNCHANGED <<node_vars, mesh_vars>>

AddComponent ==
    /\ Alive
    /\ mc.id_counter < MaxId
    /\ mc' = add_component(mc)
    /\ last' = Call("add_component", "Ok", Ok, mc'.id_counter, None, None)
    /\ issued_c' = issued_c \cup {mc'.id_counter}
    /\ UNCHANGED <<issued_n, retired_c, retired_n>>
    /\ UNCHANGED <<node_vars, mesh_vars>>

AddIo ==
    /\ Alive
    /\ mc.id_counter < MaxId
    /\ unwrap_or(mc.id_counter_node, 0) < MaxId
    /\ mc' = add_io(mc)
    /\ last' = Call("add_io", "Ok", Ok, mc'.id_counter_node[1], None, None)
    /\ issued_c' = issued_c \cup {mc'.id_counter}
    /\ issued_n' = issued_n \cup {mc'.id_counter_node[1]}
    /\ UNCHANGED <<retired_c, retired_n>>
    /\ UNCHANGED <<node_vars, mesh_vars>>

\* what a removal call leaves behind
Removed(op, id, r) ==
    /\ mc' = r.mc
    /\ last' = Call(op, IF r.panicked THEN "panic" ELSE r.ret, Ok, id, None, None)
    /\ retired_c' = IF r.mc.id_counter = mc.id_counter
                    THEN retired_c \cup (LiveC(mc) \ LiveC(r.mc)) ELSE retired_c
    /\ retired_n' = IF r.mc.id_counter_node = mc.id_counter_node
                    THEN retired_n \cup (LiveN(mc) \ LiveN(r.mc)) ELSE retired_n
    /\ UNCHANGED <<issued_c, issued_n>>
    /\ UNCHANGED <<node_vars, mesh_vars>>

\* index is 1-based here: index i stands for the Rust index i - 1
RemoveComponent ==
    /\ Alive
    /\ \E index \in 1..(Len(mc.components) + 1), overflow_checks \in BOOLEAN :
          Removed("remove_component", index,
                  remove_component(mc, index, overflow_checks))

RemoveComponentId ==
    /\ Alive
    /\ \E id \in 0..MaxId, overflow_checks \in BOOLEAN :
          Removed("remove_component_id", id,
                  remove_component_id(mc, id, overflow_checks))

RemoveIo ==
    /\ Alive
    /\ \E index \in 1..(Len(mc.io) + 1), overflow_checks \in BOOLEAN :
          Removed("remove_io", index, remove_io(mc, index, overflow_checks))

RemoveIoId ==
    /\ Alive
    /\ \E id \in 0..MaxId, overflow_checks \in BOOLEAN :
          Removed("remove_io_id", id, remove_io_id(mc, id, overflow_checks))

ToXml ==
    /\ Alive
    /\ LET r == to_xml_string(mc) IN
          last' = Call("to_xml_string", r.status, r.err, 0, r.doc, None)
    /\ UNCHANGED <<mc, issued_c, issued_n, retired_c, retired_n>>
    /\ UNCHANGED <<node_vars, mesh_vars>>

FromXmlIn(docs) ==
    /\ Fresh
    /\ \E d \in docs :
          LET r == from_xml_str(d) IN
          /\ mc' = r.mc
          /\ last' = Call("from_xml_str", r.status, r.err, 0, Some(d), r.decoded)
    /\ issued_c' = {} /\ issued_n' = {}
    /\ retired_c' = {} /\ retired_n' = {}
    /\ UNCHANGED <<node_vars, mesh_vars>>

\* The caller's assignments through the public fields are explored one per
\* constructed value: the value is as new or from_xml_str returned it.
Unedited == Alive /\ last.op \in {"new", "from_xml_str"}

\* `pub width: u8`, `pub length: u8`: plain assignments by the caller
AssignWidth ==
    /\ Unedited
    /\ \E w \in SizeVals :
          /\ mc' = [mc EXCEPT !.width = w]
          /\ last' = Call("assign_width", "Ok", Ok, w, None, None)
    /\ UNCHANGED <<issued_c, issued_n, retired_c, retired_n>>
    /\ UNCHANGED <<node_vars, mesh_vars>>

AssignLength ==
    /\ Unedited
    /\ \E l \in SizeVals :
          /\ mc' = [mc EXCEPT !.length = l]
          /\ last' = Call("assign_length", "Ok", Ok, l, None, None)
    /\ UNCHANGED <<issued_c, issued_n, retired_c, retired_n>>
    /\ UNCHANGED <<node_vars, mesh_vars>>

\* io_nodes_mut() hands out `&mut [IONode]`, and IONode is Clone with public
\* fields: `mc.io_nodes_mut()[i] = node` stores an IONode cloned from any
\* other Microcontroller, whatever its node id and bridge id
AssignIoNode ==
    /\ Unedited
    /\ \E i \in 1..Len(mc.io), n \in DocIds, c \in DocIds :
          /\ mc' = [mc EXCEPT !.io[i] = [ design |-> [node_id |-> n],
                                          logic  |-> [id |-> c] ]]
          /\ last' = Call("assign_io_node", "Ok", Ok, i, None, None)
    /\ UNCHANGED <<issued_c, issued_n, retired_c, retired_n>>
    /\ UNCHANGED <<node_vars, mesh_vars>>

\* from_xml_str on any document with at most MaxDocLen entries in each list
FromXml == FromXmlIn(DocSet(DocSizes, MaxDocLen))

\* from_xml_str on the documents with a size in range and at most one entry
\* in each list
FromXmlSized == FromXmlIn(DocSet({ <<1, 6>> }, 1))

\* a Microcontroller built with new and changed through its methods
Next ==
    \/ New
    \/ AddComponent
    \/ AddIo
    \/ RemoveComponent
    \/ RemoveComponentId
    \/ RemoveIo
    \/ RemoveIoId
    \/ ToXml

Spec == Init /\ [][Next]_vars

\* a Microcontroller obtained from new or from a document and changed
\* through its methods
NextAll ==
    \/ New
    \/ FromXmlSized
    \/ AddComponent
    \/ AddIo
    \/ RemoveComponent
    \/ RemoveComponentId
    \/ RemoveIo
    \/ RemoveIoId
    \/ ToXml

SpecAll == Init /\ [][NextAll]_vars

\* the boundaries: constructing, reading a document, assigning through the
\* public fields, writing the document
NextDoc ==
    \/ New
    \/ FromXml
    \/ AssignWidth
    \/ AssignLength
    \/ AssignIoNode
    \/ ToXml

SpecDoc == Init /\ [][NextDoc]_vars

(***************************************************************************)
(* Properties                                                              *)
(***************************************************************************)
\* the models validate() has been or can be called on: the Microcontroller
\* held and the one the last new / from_xml_str built before validating it
Candidates == (IF mc # NoMC THEN {mc} ELSE {}) \cup Range(last.decoded)

IoIds(m) == [ i \in 1..Len(m.io) |-> m.io[i].design.node_id ]

BridgeIds(m) == [ i \in 1..Len(m.io) |-> m.io[i].logic.id ]

ComponentIds(m) == [ i \in 1..Len(m.components) |-> m.components[i].id ]

Distinct(s) == \A i, j \in 1..Len(s) : i # j => s[i] # s[j]

\* the id of the entry a step appended
IsAddComponentStep ==
    /\ mc # NoMC /\ mc' # NoMC
    /\ Len(mc'.components) = Len(mc.components) + 1

IsAddIoStep ==
    /\ mc # NoMC /\ mc' # NoMC
    /\ Len(mc'.io) = Len(mc.io) + 1

NewComponentId == mc'.components[Len(mc'.components)].id

NewBridgeId == mc'.io[Len(mc'.io)].logic.id

NewNodeId == mc'.io[Len(mc'.io)].design.node_id

C2_ModelRoundTrip ==
    (Alive /\ validate(mc) = Ok)
        => LET w == to_xml_string(mc) IN
           /\ w.status = "Ok"
           /\ from_xml_str(w.doc[1]).status = "Ok"
           /\ from_xml_str(w.doc[1]).mc = mc

C4_StaysValid == mc # NoMC => validate(mc) = Ok

\* C5: components_bridge_order contains exactly the ids of the bridge logic
\* nodes of the IO nodes currently in io.
C5_BridgeOrderExact ==
    mc # NoMC => Range(mc.components_bridge_order) = Range(BridgeIds(mc))

\* C6: remove_component_id(id) that removes a component decrements
\* id_counter by exactly one if and only if id equals id_counter, and
\* remove_io_id(id) that removes an IO node decrements id_counter_node by
\* exactly one if and only if id equals id_counter_node; otherwise the
\* counter is unchanged; the remaining entries keep their ids.
C6_DecrementOnlyAtMax ==
    [][ /\ (last'.op = "remove_component_id"
            /\ Len(mc'.components) < Len(mc.components)) =>
              /\ mc'.id_counter =
                    IF last'.id = mc.id_counter
                    THEN mc.id_counter - 1 ELSE mc.id_counter
              /\ ComponentIds(mc') =
                    RemoveAt(ComponentIds(mc), PositionOf(ComponentIds(mc), last'.id))
              /\ IoIds(mc') = IoIds(mc)
        /\ (last'.op = "remove_io_id" /\ Len(mc'.io) < Len(mc.io)) =>
              /\ mc'.id_counter_node =
                    IF mc.id_counter_node = Some(last'.id)
                    THEN Some(last'.id - 1) ELSE mc.id_counter_node
              /\ IoIds(mc') = RemoveAt(IoIds(mc), PositionOf(IoIds(mc), last'.id)) ]_vars

\* the conditions of a valid Microcontroller, stated over the whole value
ValidConditions(m) ==
    /\ m.width \in 1..6 /\ m.length \in 1..6
    /\ Distinct(IoIds(m))
    /\ Range(BridgeIds(m)) \subseteq Range(m.components_bridge_order)
    /\ \A x \in Range(IoIds(m)) : x <= unwrap_or(m.id_counter_node, 0)
    /\ Distinct(ComponentIds(m))
    /\ \A x \in Range(ComponentIds(m)) : x <= m.id_counter

\* C7: validate() returns Ok exactly when width and length are in 1..=6, the
\* IO node ids are pairwise distinct, every IO node's bridge id occurs in
\* components_bridge_order, every IO node id is at most id_counter_node
\* (0 when absent), the component ids are pairwise distinct and every
\* component id is at most id_counter.
C7_ValidateOkExactly ==
    \A m \in Candidates : (validate(m) = Ok) <=> ValidConditions(m)

\* from_xml_str decoded a model of a size in range whose IO nodes pass and
\* in which two components share an id, and rejected it
C7_Witness ==
    /\ last.op = "from_xml_str" /\ last.status = "Err"
    /\ \E m \in Range(last.decoded) :
          /\ Len(m.io) >= 1
          /\ ~ Distinct(ComponentIds(m))
          /\ last.err.variant = "DuplicateComponentId"

\* C8: each kind of validation failure is reported with its own
\* MCValidationError variant; a component id above id_counter is reported as
\* ComponentIdTooHigh, not as the IO node variant NodeIdTooHigh.
C8_OwnVariantPerFailure ==
    \A m \in Candidates :
        /\ validate(m).variant = "NodeIdTooHigh"
              => \E x \in Range(IoIds(m)) : x > unwrap_or(m.id_counter_node, 0)
        /\ ( /\ m.width \in 1..6 /\ m.length \in 1..6
             /\ validate_io(m, 1, {}) = Ok
             /\ Distinct(ComponentIds(m))
             /\ \E x \in Range(ComponentIds(m)) : x > m.id_counter )
              => validate(m).variant = "ComponentIdTooHigh"

\* the first failing check when each check runs over the whole list
AggregateFirstCheck(m) ==
    IF ~ (m.width \in 1..6 /\ m.length \in 1..6) THEN "size"
    ELSE IF ~ Distinct(IoIds(m)) THEN "io_unique"
    ELSE IF ~ (Range(BridgeIds(m)) \subseteq Range(m.components_bridge_order))
         THEN "io_bridge"
    ELSE IF \E x \in Range(IoIds(m)) : x > unwrap_or(m.id_counter_node, 0)
         THEN "io_max"
    ELSE IF ~ Distinct(ComponentIds(m)) THEN "c_unique"
    ELSE IF \E x \in Range(ComponentIds(m)) : x > m.id_counter THEN "c_max"
    ELSE "none"

\* the checks an error value can stand for
ChecksOf(e) ==
    CASE e.variant = "Ok" -> {"none"}
      [] e.variant = "InvalidSize" -> {"size"}
      [] e.variant = "DuplicateIONodeId" -> {"io_unique"}
      [] e.variant = "MissingIONodeComponentOrder" -> {"io_bridge"}
      [] e.variant = "NodeIdTooHigh" -> {"io_max", "c_max"}
      [] e.variant = "DuplicateComponentId" -> {"c_unique"}
      [] e.variant = "ComponentIdTooHigh" -> {"c_max"}

\* C9 (as stated): of several violations validate() reports the one that
\* comes first in the order: size; IO node id uniqueness over all IO nodes;
\* bridge id in components_bridge_order over all IO nodes; IO node id at
\* most id_counter_node over all IO nodes; component id uniqueness;
\* component id at most id_counter.
C9_AggregateOrder ==
    \A m \in Candidates : AggregateFirstCheck(m) \in ChecksOf(validate(m))

\* the first failing check of one IO node / one component
IoNodeCheck(m, i) ==
    IF \E j \in 1..(i - 1) : IoIds(m)[j] = IoIds(m)[i]
    THEN [check |-> "io_unique", a |-> IoIds(m)[i], b |-> 0]
    ELSE IF BridgeIds(m)[i] \notin Range(m.components_bridge_order)
    THEN [check |-> "io_bridge", a |-> BridgeIds(m)[i], b |-> 0]
    ELSE IF IoIds(m)[i] > unwrap_or(m.id_counter_node, 0)
    THEN [check |-> "io_max", a |-> IoIds(m)[i], b |-> unwrap_or(m.id_counter_node, 0)]
    ELSE [check |-> "none", a |-> 0, b |-> 0]

ComponentCheck(m, i) ==
    IF \E j \in 1..(i - 1) : ComponentIds(m)[j] = ComponentIds(m)[i]
    THEN [check |-> "c_unique", a |-> ComponentIds(m)[i], b |-> 0]
    ELSE IF ComponentIds(m)[i] > m.id_counter
    THEN [check |-> "c_max", a |-> ComponentIds(m)[i], b |-> m.id_counter]
    ELSE [check |-> "none", a |-> 0, b |-> 0]

\* the variant each check is reported with
VariantOf(check) ==
    CASE check = "none" -> "Ok"
      [] check = "size" -> "InvalidSize"
      [] check = "io_unique" -> "DuplicateIONodeId"
      [] check = "io_bridge" -> "MissingIONodeComponentOrder"
      [] check = "io_max" -> "NodeIdTooHigh"
      [] check = "c_unique" -> "DuplicateComponentId"
      [] check = "c_max" -> "NodeIdTooHigh"

TraversalFirstCheck(m) ==
    LET badIo == { i \in 1..Len(m.io) : IoNodeCheck(m, i).check # "none" }
        badC  == { i \in 1..Len(m.components) : ComponentCheck(m, i).check # "none" }
    IN IF ~ (m.width \in 1..6 /\ m.length \in 1..6)
       THEN [check |-> "size", a |-> m.width, b |-> m.length]
       ELSE IF badIo # {}
       THEN IoNodeCheck(m, CHOOSE i \in badIo : \A j \in badIo : i <= j)
       ELSE IF badC # {}
       THEN ComponentCheck(m, CHOOSE i \in badC : \A j \in badC : i <= j)
       ELSE [check |-> "none", a |-> 0, b |-> 0]

\* C9 (amended): validate() reports the first failing check of this
\* traversal: the size; then for each IO node in list order (a) its id
\* differs from the ids of the IO nodes before it, (b) its bridge id is in
\* components_bridge_order, (c) its id is at most id_counter_node; then for
\* each component in list order (a) its id differs from the ids of the
\* components before it, (b) its id is at most id_counter.
\* A failure of the last check is reported with the variant NodeIdTooHigh.
C9_TraversalOrder ==
    \A m \in Candidates :
        LET t == TraversalFirstCheck(m)
        IN validate(m) = Err(VariantOf(t.check), t.a, t.b)

\* validate() ran on a model whose first IO node has an id above
\* id_counter_node and whose second IO node repeats that id
C9_Witness ==
    /\ last.op = "from_xml_str"
    /\ \E m \in Range(last.decoded) :
          /\ m.width \in 1..6 /\ m.length \in 1..6
          /\ Len(m.io) = 2
          /\ IoIds(m)[1] = IoIds(m)[2]
          /\ IoNodeCheck(m, 1).check = "io_max"
          /\ last.err.variant = "NodeIdTooHigh"

\* C10: new returns the validation error and no value when width or length
\* is outside 1..=6; to_xml_string returns the validation error and writes
\* no document whenever validate() fails on the model; from_xml_str never
\* returns Ok for a document whose decoded model fails validate().
C10_ValidatedAtBoundaries ==
    /\ (last.op = "new" /\ ~ (last.decoded[1].width \in 1..6
                              /\ last.decoded[1].length \in 1..6))
          => /\ last.status = "Err"
             /\ last.err = Err("InvalidSize", last.decoded[1].width,
                               last.decoded[1].length)
             /\ mc = NoMC
    /\ (last.op = "to_xml_string" /\ ~ ValidConditions(mc))
          => /\ last.status = "Err"
             /\ last.err = validate(mc) /\ last.err # Ok
             /\ last.doc = None
    /\ (last.op = "from_xml_str" /\ last.status = "Ok")
          => /\ last.decoded = Some(mc)
             /\ ValidConditions(mc)
    /\ (last.op = "from_xml_str"
        /\ \E m \in Range(last.decoded) : ~ ValidConditions(m))
          => /\ last.status = "Err" /\ mc = NoMC

\* to_xml_string was called on a microcontroller that fails validate() and
\* returned the error
C10_Witness ==
    /\ last.op = "to_xml_string"
    /\ mc # NoMC /\ ~ ValidConditions(mc)
    /\ last.status = "Err"

\* C11: from_xml_str surfaces every rejection as an error value and never
\* aborts: in particular an IO node whose component_id matches no bridge
\* component, and two IO nodes naming the same bridge component, yield Err
\* rather than a panic.
C11_FromXmlNeverPanics ==
    last.op = "from_xml_str" => last.status \in {"Ok", "Err"}

(***************************************************************************)
(* Components: connection slots, the generic rendering of a ComponentType  *)
(* and the patches of ser_to_map / components_deserialize                  *)
(* (src/src/components/mod.rs).                                            *)
(*                                                                         *)
(* A slot is a TypedInputConnection / TypedOutputConnection: its           *)
(* connection, its force_visible mark and its legacy block v, an           *)
(* Option<ConnectionV> whose value is "default" (ConnectionV::default())   *)
(* or "custom" (anything else).  The object of a component is a FakeMap:   *)
(* a sequence of entries, one per written slot, keyed by its tag.  The     *)
(* attributes of the object (@count, @offset, @i) are never touched by a   *)
(* patch and are kept as fields beside the entries.                        *)
(***************************************************************************)
\* the number of numbered inputs of CompositeWriteNum / CompositeWriteOnOff:
\* 32 in the catalog, NumInputs here; the start slot, in34 in the catalog,
\* is the slot after them
NumInputs == 3

StartIdx == NumInputs + 2

Tag(name, n) == [name |-> name, n |-> n]

In(n) == Tag("in", n)

Out(n) == Tag("out", n)

Inc == Tag("inc", 0)

Inoff == Tag("inoff", 0)

Reserved == Tag("__reserved", 0)

\* the catalog entry of a type code: its slots in declaration order, inputs
\* first, each with its tag, its signal kind T and its const parameter S
SlotDef(tag, T) == [tag |-> tag, T |-> T, S |-> TRUE]

NumericalJunction == 21

PushToToggle == 28

CompositeReadOnOff == 29

CompositeReadNum == 31

CompositeWriteNum == 40

CompositeWriteOnOff == 41

Types == { NumericalJunction, PushToToggle, CompositeReadOnOff,
           CompositeReadNum, CompositeWriteNum, CompositeWriteOnOff }

CompositeWriteSlots(T) ==
    << SlotDef(In(1), "Composite") >>
    \o [ i \in 1..NumInputs |-> SlotDef(In(i + 1), T) ]
    \o << SlotDef(In(StartIdx), "Number"), SlotDef(Out(1), "Composite") >>

io_def(type) ==
    CASE type = NumericalJunction ->
            << SlotDef(In(1), "Number"), SlotDef(In(2), "OnOff"),
               SlotDef(Out(1), "Number"), SlotDef(Out(2), "Number") >>
      [] type = PushToToggle ->
            << SlotDef(In(1), "OnOff"), SlotDef(Out(1), "OnOff") >>
      [] type = CompositeReadOnOff ->
            << SlotDef(In(1), "Composite"), SlotDef(In(2), "Number"),
               SlotDef(Out(1), "OnOff") >>
      [] type = CompositeReadNum ->
            << SlotDef(In(1), "Composite"), SlotDef(In(2), "Number"),
               SlotDef(Out(1), "Number") >>
      [] type = CompositeWriteNum -> CompositeWriteSlots("Number")
      [] type = CompositeWriteOnOff -> CompositeWriteSlots("OnOff")

\* #[derive(Default)]: no connection, force_visible false, no legacy block
DefaultSlot == [connection |-> None, force_visible |-> FALSE, v |-> None]

is_default(t) == t = DefaultSlot

skip_typedinputconnection(t) == is_default(t) /\ ~ t.force_visible

skip_connection(T, S, v) ==
    IF v = None THEN TRUE
    ELSE v[1] = "default" /\ (T = "Number" \/ T = "OnOff")

\* the entry a written slot becomes: its tag, its connection attributes and
\* its v element, None when skip_connection leaves it out
ser_slot(def, t) ==
    [ k |-> def.tag, connection |-> t.connection,
      v |-> IF skip_connection(def.T, def.S, t.v) THEN None ELSE t.v ]

\* de_slot with force_visible read as the bool default
de_slot_default_visible(e) ==
    [ connection |-> IF e.k.name = "out" THEN None ELSE e.connection,
      force_visible |-> FALSE, v |-> e.v ]

\* the slot an entry is read as: serde skips force_visible with
\* default = "tru"; an absent v element reads as None; an output slot has
\* no connection field
de_slot(e) ==
    [ connection |-> IF e.k.name = "out" THEN None ELSE e.connection,
      force_visible |-> TRUE, v |-> e.v ]

(***************************************************************************)
(* FakeMap<String, RecursiveStringMap>                                     *)
(***************************************************************************)
Keys(o) == { o[i].k : i \in 1..Len(o) }

PositionOfKey(o, k) ==
    IF \E i \in 1..Len(o) : o[i].k = k
    THEN CHOOSE i \in 1..Len(o) : o[i].k = k /\ \A j \in 1..(i - 1) : o[j].k # k
    ELSE 0

fm_get(o, k) == IF PositionOfKey(o, k) = 0 THEN None ELSE Some(o[PositionOfKey(o, k)])

fm_remove(o, k) == IF PositionOfKey(o, k) = 0 THEN o ELSE RemoveAt(o, PositionOfKey(o, k))

fm_insert(o, k, e) ==
    IF PositionOfKey(o, k) = 0
    THEN Append(o, [e EXCEPT !.k = k])
    ELSE [o EXCEPT ![PositionOfKey(o, k)] = [e EXCEPT !.k = k]]

\* the insertion loop of duplicate_by_key over the saved entries
RECURSIVE duplicate_insert(_, _, _, _, _)
duplicate_insert(acc, saved, i, dup, reserved) ==
    IF i > Len(saved) THEN acc
    ELSE LET e  == saved[i]
             a1 == IF e.k = dup THEN fm_insert(acc, reserved, e) ELSE acc
         IN duplicate_insert(fm_insert(a1, e.k, e), saved, i + 1, dup, reserved)

duplicate_by_key_keep_reserved(o, dup, reserved) ==
    duplicate_insert(<< >>, o, 1, dup, reserved)

duplicate_by_key(o, dup, reserved) ==
    LET filled == duplicate_insert(<< >>, o, 1, dup, reserved)
        first  == PositionOfKey(filled, reserved)
    IN IF first = 0 THEN filled
       ELSE [filled EXCEPT ![first] = [@ EXCEPT !.k = dup]]

(***************************************************************************)
(* A node is a ComponentType value: its type code, its slots in the order  *)
(* of io_def and the attributes the patches read.  A map is what           *)
(* ser_to_map returns and components_deserialize receives: "@type" and     *)
(* "object".                                                               *)
(***************************************************************************)
Map(type, count, offset, channel, object) ==
    [type |-> type, count |-> count, offset |-> offset, channel |-> channel,
     object |-> object]

\* the derived Serialize: the slots that skip_typedinputconnection /
\* skip_typedoutputconnection do not skip, in declaration order
RECURSIVE ser_slots(_, _, _)
ser_slots(defs, slots, i) ==
    IF i > Len(defs) THEN << >>
    ELSE IF skip_typedinputconnection(slots[i])
         THEN ser_slots(defs, slots, i + 1)
         ELSE << ser_slot(defs[i], slots[i]) >> \o ser_slots(defs, slots, i + 1)

serialize(n) ==
    Map(n.type, n.count, n.offset, n.channel, ser_slots(io_def(n.type), n.slots, 1))

\* the key loop of the CompositeWrite patch: in1 -> inc, in34 -> inoff,
\* in{n} -> in{n-1}.  The keys come from serialize, so n >= 2 where the
\* subtraction is reached.
ser_rename(k) ==
    IF k = In(1) THEN Inc
    ELSE IF k = In(StartIdx) THEN Inoff
    ELSE IF k.name = "in" THEN In(k.n - 1)
    ELSE k

RECURSIVE remove_above_inclusive(_, _, _)
remove_above_inclusive(o, count, i) ==
    IF i > NumInputs THEN o
    ELSE remove_above_inclusive(IF i >= count THEN fm_remove(o, In(i)) ELSE o,
                                count, i + 1)

RECURSIVE remove_above(_, _, _)
\* for i in 1..=32 { if i > count { o.remove("in{i}") } }
remove_above(o, count, i) ==
    IF i > NumInputs THEN o
    ELSE remove_above(IF i > count THEN fm_remove(o, In(i)) ELSE o, count, i + 1)

\* the patch closure of components! { ComponentType, .. }
ser_patch_junction(n, o) ==
    IF n.type = NumericalJunction
    THEN duplicate_by_key(fm_remove(o, Out(2)), Out(1), Reserved)
    ELSE o

ser_patch_write(n, o) ==
    IF n.type \in {CompositeWriteNum, CompositeWriteOnOff}
    THEN LET renamed == [ i \in 1..Len(o) |-> [o[i] EXCEPT !.k = ser_rename(o[i].k)] ]
             trimmed == IF n.offset # -1 THEN fm_remove(renamed, Inoff) ELSE renamed
         IN remove_above(trimmed, n.count, 1)
    ELSE o

\* `o.remove("in2").unwrap()` panics when the object has no in2
ser_patch_read(n, o) ==
    IF n.type \in {CompositeReadNum, CompositeReadOnOff}
    THEN IF n.channel = -1
         THEN IF fm_get(o, In(2)) = None
              THEN [object |-> o, panicked |-> TRUE]
              ELSE [object |-> fm_insert(fm_remove(o, In(2)), In(2), fm_get(o, In(2))[1]),
                    panicked |-> FALSE]
         ELSE [object |-> fm_remove(o, In(2)), panicked |-> FALSE]
    ELSE [object |-> o, panicked |-> FALSE]

ser_to_map(n) ==
    LET de == serialize(n)
        r  == ser_patch_read(n, ser_patch_write(n, ser_patch_junction(n, de.object)))
    IN [map |-> [de EXCEPT !.object = r.object], panicked |-> r.panicked]

de_rename_no_shift(k) ==
    IF k = Inc THEN In(1)
    ELSE IF k = Inoff THEN In(StartIdx)
    ELSE k

\* the key loop of components_deserialize for type 40 / 41
de_rename(k) ==
    IF k = Inc THEN In(1)
    ELSE IF k = Inoff THEN In(StartIdx)
    ELSE IF k.name = "in" THEN In(k.n + 1)
    ELSE k

\* RecursiveStringMap::default(): an empty element
EmptyEntry(k) == [k |-> k, connection |-> None, v |-> None]

\* the patch of components_deserialize
de_patch(m) ==
    IF m.type = NumericalJunction
    THEN [m EXCEPT !.object = fm_insert(fm_remove(m.object, Out(1)), Out(2), EmptyEntry(Out(2)))]
    ELSE IF m.type \in {CompositeWriteNum, CompositeWriteOnOff}
    THEN [m EXCEPT !.object = [ i \in 1..Len(m.object) |->
                                  [m.object[i] EXCEPT !.k = de_rename(m.object[i].k)] ]]
    ELSE m

\* the derived Deserialize: each slot from the entry with its tag, Default
\* when there is none; an entry with another tag is ignored; two entries
\* with the tag of one slot are a duplicate field, and the expect() of
\* From<_ComponentTypeDe> panics on the error
deserialize(m) ==
    LET defs == io_def(m.type) IN
    [ node |-> [ type |-> m.type, count |-> m.count, offset |-> m.offset,
                 channel |-> m.channel,
                 slots |-> [ i \in 1..Len(defs) |->
                               IF fm_get(m.object, defs[i].tag) = None
                               THEN DefaultSlot
                               ELSE de_slot(fm_get(m.object, defs[i].tag)[1]) ] ],
      panicked |-> \E i \in 1..Len(defs) :
                      Cardinality({ j \in 1..Len(m.object) : m.object[j].k = defs[i].tag }) > 1 ]

components_deserialize(m) == deserialize(de_patch(m))

(***************************************************************************)
(* The nodes and the maps the conversions are applied to                   *)
(*                                                                         *)
(* node   the ComponentType value held, None when there is none            *)
(* tree   the map held: the result of ser_to_map or a map read from a      *)
(*        document                                                         *)
(* conv   the last conversion: its name, its outcome, the value the chain  *)
(*        of conversions started from and the number of conversions since  *)
(***************************************************************************)
\* longest object of a map read from a document
MaxTreeLen == 3

\* the input slots a caller can hold: built through new() / empty() /
\* Default (force_visible false, no legacy block) or read from a document
\* (force_visible true), with the public connection field set or cleared
SlotVals ==
    { t \in [ connection : {None, Some(1)}, force_visible : BOOLEAN,
              v : {None, Some("default"), Some("custom")} ] :
        t.force_visible \/ t.v = None }

\* the output slots: a TypedOutputConnection has no connection
OutVals == { t \in SlotVals : t.connection = None }

\* three input slots: never written; connected through the API; read from
\* an empty element
FewSlotVals ==
    { DefaultSlot,
      [connection |-> Some(1), force_visible |-> FALSE, v |-> None],
      [connection |-> None, force_visible |-> TRUE, v |-> None] }

Node(type, slots, count, offset, channel) ==
    [type |-> type, slots |-> slots, count |-> count, offset |-> offset,
     channel |-> channel]

\* off_path is never read with a legacy block: components_deserialize
\* replaces out2 by an empty element
JunctionNodes ==
    { Node(NumericalJunction, <<a, b, c, d>>, 0, 0, 0) :
        a \in SlotVals, b \in SlotVals, c \in OutVals,
        d \in { t \in OutVals : t.v = None } }

ToggleNodes ==
    { Node(PushToToggle, <<a, b>>, 0, 0, 0) : a \in SlotVals, b \in OutVals }

ReadNodes ==
    { Node(type, <<a, b, c>>, 0, 0, channel) :
        type \in {CompositeReadOnOff, CompositeReadNum},
        a \in FewSlotVals, b \in SlotVals, c \in OutVals,
        channel \in {-1, 0, 1} }

WriteNodes(w) ==
    { Node(type, ins \o <<out>>, count, offset, 0) :
        type \in {CompositeWriteNum, CompositeWriteOnOff},
        ins \in [1..(w + 2) -> FewSlotVals],
        out \in { t \in FewSlotVals : t.connection = None },
        count \in 0..(w + 1),
        offset \in {-1, 0} }

NodeSet(w) == JunctionNodes \cup ToggleNodes \cup ReadNodes \cup WriteNodes(w)

\* the tags and the legacy blocks of the objects read from a document
DocTags(type) ==
    CASE type = NumericalJunction -> {In(1), Out(1), Out(2)}
      [] type = PushToToggle -> {In(1), Out(1)}
      [] type \in {CompositeReadOnOff, CompositeReadNum} -> {In(1), In(2), Out(1)}
      [] type \in {CompositeWriteNum, CompositeWriteOnOff} ->
            {Inc, In(1), In(NumInputs), Inoff, Out(1)}

DocBlocks(type) ==
    IF type = NumericalJunction THEN {None, Some("custom")} ELSE {None}

DocAttrs(type) ==
    { x \in [ count : {0, NumInputs}, offset : {-1, 0}, channel : {-1, 0} ] :
        /\ type \in {CompositeWriteNum, CompositeWriteOnOff}
              \/ (x.count = 0 /\ x.offset = 0)
        /\ type \in {CompositeReadOnOff, CompositeReadNum} \/ x.channel = 0 }

DocMaps(n) ==
    UNION { { Map(type, x.count, x.offset, x.channel, o) :
                x \in DocAttrs(type),
                o \in SeqsUpTo([ k : DocTags(type), connection : {None},
                                 v : DocBlocks(type) ], n) } :
            type \in Types }

(***************************************************************************)
(* Actions on a node                                                       *)
(***************************************************************************)
Conv(op, status, src, n) == [op |-> op, status |-> status, src |-> src, n |-> n]

\* the longest chain of conversions followed from one input
MaxConv == 3

\* a caller builds a ComponentType value through the public enum
BuildNode ==
    /\ Fresh
    /\ conv.op = "none"
    /\ \E n \in NodeSet(NumInputs) :
          /\ node' = Some(n)
          /\ conv' = Conv("build", "Ok", Some(n), 0)
    /\ tree' = None
    /\ UNCHANGED <<mc_vars, mesh_vars>>

\* the map of one <c> element of a document
ReadMap ==
    /\ Fresh
    /\ conv.op = "none"
    /\ \E m \in DocMaps(MaxTreeLen) :
          /\ tree' = Some(m)
          /\ conv' = Conv("read", "Ok", Some(m), 0)
    /\ node' = None
    /\ UNCHANGED <<mc_vars, mesh_vars>>

SerToMap ==
    /\ conv.op \in {"build", "components_deserialize"}
    /\ conv.status = "Ok"
    /\ conv.n < MaxConv
    /\ LET r == ser_to_map(node[1]) IN
          /\ tree' = IF r.panicked THEN None ELSE Some(r.map)
          /\ conv' = Conv("ser_to_map", IF r.panicked THEN "panic" ELSE "Ok",
                          conv.src, conv.n + 1)
    /\ UNCHANGED node
    /\ UNCHANGED <<mc_vars, mesh_vars>>

ComponentsDeserialize ==
    /\ conv.op \in {"read", "ser_to_map"}
    /\ conv.status = "Ok"
    /\ conv.n < MaxConv
    /\ LET r == components_deserialize(tree[1]) IN
          /\ node' = IF r.panicked THEN None ELSE Some(r.node)
          /\ conv' = Conv("components_deserialize",
                          IF r.panicked THEN "panic" ELSE "Ok",
                          conv.src, conv.n + 1)
    /\ UNCHANGED tree
    /\ UNCHANGED <<mc_vars, mesh_vars>>

NextNode == BuildNode \/ ReadMap \/ SerToMap \/ ComponentsDeserialize

SpecNode == Init /\ [][NextNode]_vars

(***************************************************************************)
(* Properties of the conversions                                           *)
(***************************************************************************)
IsNode(x) == "slots" \in DOMAIN x

\* the state after ser_to_map and then components_deserialize of a built node
NodeRoundTripDone(types) ==
    /\ conv.op = "components_deserialize"
    /\ conv.n = 2
    /\ IsNode(conv.src[1])
    /\ conv.src[1].type \in types

\* the state after components_deserialize and then ser_to_map of a read map
MapRoundTripDone(types) ==
    /\ conv.op = "ser_to_map"
    /\ conv.n = 2
    /\ ~ IsNode(conv.src[1])
    /\ conv.src[1].type \in types

\* what a logical output is: whether it is present and the legacy payload it
\* is written with
Output(def, t) ==
    [ present |-> ~ skip_typedinputconnection(t),
      payload |-> ser_slot(def, t).v ]

\* C12: for every NumericalJunction node, ser_to_map then
\* components_deserialize gives back on_path and off_path with the presence
\* and the legacy payload they had, and for every map of that kind
\* components_deserialize then ser_to_map gives back the same object, tags in
\* the same order.
C12_JunctionRoundTrip ==
    /\ NodeRoundTripDone({NumericalJunction}) =>
          /\ conv.status = "Ok"
          /\ \A i \in {3, 4} :
                Output(io_def(NumericalJunction)[i], node[1].slots[i])
                  = Output(io_def(NumericalJunction)[i], conv.src[1].slots[i])
    /\ MapRoundTripDone({NumericalJunction}) =>
          /\ conv.status = "Ok"
          /\ tree[1] = conv.src[1]

CompositeWrite == {CompositeWriteNum, CompositeWriteOnOff}

TagRank(k) ==
    IF k = Inc THEN 0
    ELSE IF k = Inoff THEN NumInputs + 1
    ELSE IF k.name = "in" THEN k.n
    ELSE NumInputs + 2

\* a map in the written form: tags in the written order, none twice, no
\* numbered input beyond count, inoff only with offset -1
WrittenForm(m) ==
    /\ \A i \in 1..(Len(m.object) - 1) :
          TagRank(m.object[i].k) < TagRank(m.object[i + 1].k)
    /\ \A i \in 1..Len(m.object) :
          /\ (m.object[i].k.name = "in") => m.object[i].k.n <= m.count
          /\ (m.object[i].k = Inoff) => m.offset = -1

Rendered(types) ==
    /\ conv.op = "ser_to_map"
    /\ conv.n = 1
    /\ IsNode(conv.src[1])
    /\ conv.src[1].type \in types

PositionsOfKey(o, k) == { i \in 1..Len(o) : o[i].k = k }

\* C14: ser_to_map of any NumericalJunction node gives an object with out1
\* as the only output tag, in both output positions: two out1 entries, the
\* last two of the object (the second where out2 was), no out2 entry and no
\* entry under the reserved key.
C14_JunctionShape ==
    Rendered({NumericalJunction}) =>
        /\ conv.status = "Ok"
        /\ LET o == tree[1].object IN
              /\ PositionsOfKey(o, Out(1)) = {Len(o) - 1, Len(o)}
              /\ Len(o) >= 2
              /\ Out(2) \notin Keys(o)
              /\ Reserved \notin Keys(o)

Written(t) == ~ skip_typedinputconnection(t)

\* C14 (amended): ser_to_map of a NumericalJunction node never leaves an
\* out2 entry or an entry under the reserved key.  When on_path is written
\* the object ends with two out1 entries, both carrying on_path, the second
\* where out2 was; when on_path is not written (the Default, the only
\* output a caller can build) the object has no output entry at all.
C14_JunctionShapeWhenWritten ==
    Rendered({NumericalJunction}) =>
        /\ conv.status = "Ok"
        /\ LET o == tree[1].object
               on_path == conv.src[1].slots[3]
           IN /\ Out(2) \notin Keys(o)
              /\ Reserved \notin Keys(o)
              /\ Written(on_path) =>
                    /\ Len(o) >= 2
                    /\ PositionsOfKey(o, Out(1)) = {Len(o) - 1, Len(o)}
                    /\ o[Len(o) - 1] = o[Len(o)]
                    /\ o[Len(o)] = ser_slot(io_def(NumericalJunction)[3], on_path)
              /\ ~ Written(on_path) => Out(1) \notin Keys(o)

\* a junction with an input, on_path and off_path written has been rendered
C14_Witness ==
    /\ Rendered({NumericalJunction})
    /\ Written(conv.src[1].slots[1])
    /\ Written(conv.src[1].slots[3])
    /\ Written(conv.src[1].slots[4])
    /\ Len(tree[1].object) = 3

\* C15: for every CompositeWriteNum / CompositeWriteOnOff node with count c
\* and offset o, the object ser_to_map gives contains inc, contains inoff
\* when o = -1 and not otherwise, and contains no in{i} with i > c.
C15_WriteShape ==
    Rendered(CompositeWrite) =>
        /\ conv.status = "Ok"
        /\ LET o == tree[1].object IN
              /\ Inc \in Keys(o)
              /\ (Inoff \in Keys(o)) <=> (conv.src[1].offset = -1)
              /\ \A k \in Keys(o) : k.name = "in" => k.n <= conv.src[1].count

\* C15 (amended): the object contains inc exactly when the composite input
\* is written, inoff exactly when the start input is written and o = -1, and
\* in{i} exactly when numbered input i is written and i <= c; the entries
\* carry the slots' content and stand in the order inc, in1 .., inoff, out1.
C15_WriteShapeOfWrittenSlots ==
    Rendered(CompositeWrite) =>
        /\ conv.status = "Ok"
        /\ LET o == tree[1].object
               n == conv.src[1]
               defs == io_def(n.type)
           IN /\ (Inc \in Keys(o)) <=> Written(n.slots[1])
              /\ (Inoff \in Keys(o)) <=> (Written(n.slots[StartIdx]) /\ n.offset = -1)
              /\ \A i \in 1..NumInputs :
                    (In(i) \in Keys(o)) <=> (Written(n.slots[i + 1]) /\ i <= n.count)
              /\ \A k \in Keys(o) : k.name = "in" => k.n \in 1..NumInputs
              /\ \A i \in 1..Len(defs) :
                    LET k == ser_rename(defs[i].tag) IN
                    k \in Keys(o) =>
                        fm_get(o, k)[1] = [ser_slot(defs[i], n.slots[i]) EXCEPT !.k = k]
              /\ \A i \in 1..(Len(o) - 1) : TagRank(o[i].k) < TagRank(o[i + 1].k)

\* a node with offset -1, a count below the number of inputs and every input
\* written has been rendered
C15_Witness ==
    /\ Rendered(CompositeWrite)
    /\ conv.src[1].offset = -1
    /\ conv.src[1].count \in 1..(NumInputs - 1)
    /\ \A i \in 1..StartIdx : Written(conv.src[1].slots[i])
    /\ Keys(tree[1].object) \cap {Inc, Inoff, In(1)} = {Inc, Inoff, In(1)}

CompositeRead == {CompositeReadNum, CompositeReadOnOff}

\* C16: for every CompositeReadNum / CompositeReadOnOff node, ser_to_map
\* gives an object where in2 stands immediately after out1 when channel is
\* -1, and an object with no in2 when channel is any other value.
C16_ReadShape ==
    Rendered(CompositeRead) =>
        /\ conv.status = "Ok"
        /\ LET o == tree[1].object IN
              IF conv.src[1].channel = -1
              THEN \E i \in 1..(Len(o) - 1) : o[i].k = Out(1) /\ o[i + 1].k = In(2)
              ELSE In(2) \notin Keys(o)

\* C17: ser_to_map returns a map for every node of every kind; a tag the
\* patch looks for and does not find is treated as absent.
C17_SerToMapNeverFails ==
    conv.op = "ser_to_map" => conv.status = "Ok"

\* C18: when a slot is written, its v element is left out exactly when the
\* block is at its default value and the slot's signal kind is OnOff or
\* Number and the slot is not declared always visible (S); in every other
\* case the block is written.
C18_LegacyBlockRule ==
    (Rendered({PushToToggle}) /\ conv.status = "Ok") =>
        LET n == conv.src[1]
            defs == io_def(n.type)
        IN \A i \in 1..Len(defs) :
              (Written(n.slots[i]) /\ n.slots[i].v # None) =>
                  ( (fm_get(tree[1].object, defs[i].tag)[1].v = None)
                    <=> ( /\ n.slots[i].v = Some("default")
                          /\ defs[i].T \in {"OnOff", "Number"}
                          /\ ~ defs[i].S ) )

(***************************************************************************)
(* Mesh::load_file                                                         *)
(*                                                                         *)
(* stream  the bytes of the file being decoded, as its fields in stream    *)
(*         order and the number of bytes the file holds (len); None before *)
(*         a file is opened                                                *)
(* mesh    the outcome of load_file: Ok with the decoded mesh, Err with a  *)
(*         MeshParseError variant and its fields, or panic                 *)
(***************************************************************************)
HEADER == <<109, 101, 115, 104, 7, 0, 1, 0>>

BLOCK_HEADER == <<19, 0, 0, 0>>

PADDING == <<0, 0>>

\* sizes in bytes: a vertex is 3 f32, 4 u8 and 3 f32; a face is 3 u16; the
\* tail of a submesh record is cull_min, cull_max, a u16 and skip
VertexBytes == 28

FaceBytes == 6

SubmeshTailBytes == 28

MeshResult(status, variant, expected, actual, value) ==
    [status |-> status, variant |-> variant, expected |-> expected,
     actual |-> actual, value |-> value]

MeshErr(variant, expected, actual) == MeshResult("Err", variant, expected, actual, None)

\* `?` on a read of byteorder / seek: Err(MeshParseError::IOError)
IOError == MeshErr("IOError", None, None)

\* `.unwrap()` of read_exact in read_bytes, and the index of faces[..]
Panic(what) == MeshResult("panic", what, None, None, None)

\* whether n bytes can be read at offset off
Avail(s, off, n) == off + n <= s.len

\* the bytes of a submesh record with the skip count as the only u16 after
\* the two corners
SubmeshBytesOneU16(sub) == 4 + 4 + 2 + 2 + 24 + 2 + (sub.skip - 2) + 14

\* the bytes one submesh record takes: pos, n_tris, padding, material, the
\* tail, then seek_relative(skip - 2) and seek_relative(14)
SubmeshBytes(sub) == 4 + 4 + 2 + 2 + SubmeshTailBytes + (sub.skip - 2) + 14

\* the closure of the submeshes map with the material checked before the
\* padding
read_submesh_material_first(s, sub, off, faces) ==
    IF ~ Avail(s, off, 4) THEN IOError
    ELSE IF sub.pos % 3 # 0 THEN MeshErr("InvalidSubmeshPosition", None, Some(sub.pos))
    ELSE IF ~ Avail(s, off + 4, 4) THEN IOError
    ELSE IF ~ Avail(s, off + 8, 2) THEN Panic("read_exact")
    ELSE IF ~ Avail(s, off + 10, 2) THEN IOError
    ELSE IF sub.material \notin 0..3
         THEN MeshErr("InvalidSubmeshMaterial", None, Some(sub.material))
    ELSE IF sub.padding # PADDING
         THEN MeshErr("WrongSubmeshPadding", None, Some(sub.padding))
    ELSE IF ~ Avail(s, off + 12, SubmeshTailBytes) THEN IOError
    ELSE IF sub.n_tris \div 3 > 0 /\ sub.pos \div 3 + sub.n_tris \div 3 > Len(faces)
         THEN Panic("index out of bounds")
    ELSE MeshResult("Ok", "none", None, None,
                    [material |-> sub.material, pos |-> sub.pos \div 3,
                     n_tris |-> sub.n_tris \div 3,
                     tris |-> [ i \in 1..(sub.n_tris \div 3) |->
                                  faces[sub.pos \div 3 + i] ]])

\* the closure of the submeshes map with the commented-out rejection of a
\* triangle count that is not a multiple of 3
read_submesh_strict_count(s, sub, off, faces) ==
    IF ~ Avail(s, off, 4) THEN IOError
    ELSE IF sub.pos % 3 # 0 THEN MeshErr("InvalidSubmeshPosition", None, Some(sub.pos))
    ELSE IF ~ Avail(s, off + 4, 4) THEN IOError
    ELSE IF sub.n_tris % 3 # 0 THEN MeshErr("InvalidTriangleCount", None, Some(sub.n_tris))
    ELSE IF ~ Avail(s, off + 8, 2) THEN Panic("read_exact")
    ELSE IF sub.padding # PADDING
         THEN MeshErr("WrongSubmeshPadding", None, Some(sub.padding))
    ELSE IF ~ Avail(s, off + 10, 2) THEN IOError
    ELSE IF sub.material \notin 0..3
         THEN MeshErr("InvalidSubmeshMaterial", None, Some(sub.material))
    ELSE IF ~ Avail(s, off + 12, SubmeshTailBytes) THEN IOError
    ELSE IF sub.n_tris \div 3 > 0 /\ sub.pos \div 3 + sub.n_tris \div 3 > Len(faces)
         THEN Panic("index out of bounds")
    ELSE MeshResult("Ok", "none", None, None,
                    [material |-> sub.material, pos |-> sub.pos \div 3,
                     n_tris |-> sub.n_tris \div 3,
                     tris |-> [ i \in 1..(sub.n_tris \div 3) |->
                                  faces[sub.pos \div 3 + i] ]])

\* the closure of the submeshes map taking the triangles from the start of
\* the face list
read_submesh_ignore_pos(s, sub, off, faces) ==
    IF ~ Avail(s, off, 4) THEN IOError
    ELSE IF sub.pos % 3 # 0 THEN MeshErr("InvalidSubmeshPosition", None, Some(sub.pos))
    ELSE IF ~ Avail(s, off + 4, 4) THEN IOError
    ELSE IF ~ Avail(s, off + 8, 2) THEN Panic("read_exact")
    ELSE IF sub.padding # PADDING
         THEN MeshErr("WrongSubmeshPadding", None, Some(sub.padding))
    ELSE IF ~ Avail(s, off + 10, 2) THEN IOError
    ELSE IF sub.material \notin 0..3
         THEN MeshErr("InvalidSubmeshMaterial", None, Some(sub.material))
    ELSE IF ~ Avail(s, off + 12, SubmeshTailBytes) THEN IOError
    ELSE IF sub.n_tris \div 3 > 0 /\ sub.n_tris \div 3 > Len(faces)
         THEN Panic("index out of bounds")
    ELSE MeshResult("Ok", "none", None, None,
                    [material |-> sub.material, pos |-> sub.pos \div 3,
                     n_tris |-> sub.n_tris \div 3,
                     tris |-> [ i \in 1..(sub.n_tris \div 3) |->
                                  faces[i] ]])

\* the closure of the submeshes map: one submesh record read at offset off,
\* faces the face list read before it
read_submesh(s, sub, off, faces) ==
    IF ~ Avail(s, off, 4) THEN IOError
    ELSE IF sub.pos % 3 # 0 THEN MeshErr("InvalidSubmeshPosition", None, Some(sub.pos))
    ELSE IF ~ Avail(s, off + 4, 4) THEN IOError
    ELSE IF ~ Avail(s, off + 8, 2) THEN Panic("read_exact")
    ELSE IF sub.padding # PADDING
         THEN MeshErr("WrongSubmeshPadding", None, Some(sub.padding))
    ELSE IF ~ Avail(s, off + 10, 2) THEN IOError
    ELSE IF sub.material \notin 0..3
         THEN MeshErr("InvalidSubmeshMaterial", None, Some(sub.material))
    ELSE IF ~ Avail(s, off + 12, SubmeshTailBytes) THEN IOError
    ELSE IF sub.n_tris \div 3 > 0 /\ sub.pos \div 3 + sub.n_tris \div 3 > Len(faces)
         THEN Panic("index out of bounds")
    ELSE MeshResult("Ok", "none", None, None,
                    [material |-> sub.material, pos |-> sub.pos \div 3,
                     n_tris |-> sub.n_tris \div 3,
                     tris |-> [ i \in 1..(sub.n_tris \div 3) |->
                                  faces[sub.pos \div 3 + i] ]])

\* the submeshes map collected into a Result: the first failure ends it;
\* with the submeshes comes the place of the cursor after the last record
RECURSIVE read_submeshes(_, _, _, _, _)
read_submeshes(s, i, off, faces, acc) ==
    IF i > s.n_submeshes
    THEN MeshResult("Ok", "none", None, None, [submeshes |-> acc, cursor |-> off])
    ELSE IF i > Len(s.subs) THEN IOError
    ELSE LET r == read_submesh(s, s.subs[i], off, faces) IN
         IF r.status # "Ok" THEN r
         ELSE read_submeshes(s, i + 1, off + SubmeshBytes(s.subs[i]), faces,
                             Append(acc, r.value))

\* the k-th face record of a file: three u16 vertex indices
FaceRecord(k) == [indices |-> <<3 * k - 3, 3 * k - 2, 3 * k - 1>>]

load_file(s) ==
    LET vertices_at == 8 + 2 + 4
        n_faces_at  == vertices_at + VertexBytes * s.n_vertices
        faces_at    == n_faces_at + 4
        n_faces     == s.n_faces \div 3
        n_sub_at    == faces_at + FaceBytes * n_faces
        subs_at     == n_sub_at + 2
        faces       == [ k \in 1..n_faces |-> FaceRecord(k) ]
    IN
    IF ~ Avail(s, 0, 8) THEN Panic("read_exact")
    ELSE IF s.header # HEADER THEN MeshErr("InvalidHeader", Some(HEADER), Some(s.header))
    ELSE IF ~ Avail(s, 8, 2) THEN IOError
    ELSE IF ~ Avail(s, 10, 4) THEN Panic("read_exact")
    ELSE IF s.block_header # BLOCK_HEADER
         THEN MeshErr("InvalidBlockHeader", Some(BLOCK_HEADER), Some(s.block_header))
    ELSE IF ~ Avail(s, vertices_at, VertexBytes * s.n_vertices) THEN IOError
    ELSE IF ~ Avail(s, n_faces_at, 4) THEN IOError
    ELSE IF s.n_faces % 3 # 0 THEN MeshErr("InvalidFaceCount", None, Some(s.n_faces))
    ELSE IF ~ Avail(s, faces_at, FaceBytes * n_faces) THEN IOError
    ELSE IF ~ Avail(s, n_sub_at, 2) THEN IOError
    ELSE LET r == read_submeshes(s, 1, subs_at, faces, << >>) IN
         IF r.status # "Ok" THEN r
         ELSE MeshResult("Ok", "none", None, None,
                         [vertices |-> s.n_vertices, faces |-> faces,
                          submeshes |-> r.value.submeshes,
                          cursor |-> r.value.cursor])

(***************************************************************************)
(* The files load_file is applied to                                       *)
(***************************************************************************)
SubmeshVals ==
    [ pos : {0, 3, 4}, n_tris : {0, 3, 4}, padding : {PADDING, <<1, 0>>},
      material : {0, 3, 4}, skip : {2, 4} ]

\* the fields of a file with at most one submesh, without its length
StreamFields ==
    [ header : {HEADER, <<77, 69, 83, 72, 7, 0, 1, 0>>},
      n_vertices : {0, 1},
      block_header : {BLOCK_HEADER, <<0, 0, 0, 0>>},
      n_faces : {0, 3, 4, 6},
      n_submeshes : {0, 1},
      subs : {<< >>} \cup { <<x>> : x \in SubmeshVals } ]

\* the offsets at which the fields of a file end, in stream order
FieldEnds(f) ==
    LET vertices_at == 8 + 2 + 4
        n_faces_at  == vertices_at + VertexBytes * f.n_vertices
        n_sub_at    == n_faces_at + 4 + FaceBytes * (f.n_faces \div 3)
        subs_at     == n_sub_at + 2
    IN {8, 10, vertices_at, n_faces_at, n_faces_at + 4, n_sub_at, subs_at}
       \cup (IF f.subs = << >> THEN {}
             ELSE {subs_at + 4, subs_at + 8, subs_at + 10, subs_at + 12,
                   subs_at + 12 + SubmeshTailBytes,
                   subs_at + SubmeshBytes(f.subs[1])})

Max(S) == CHOOSE x \in S : \A y \in S : y <= x

\* a file holds all its fields, or ends one byte before the end of a field
StreamLens(f) == {Max(FieldEnds(f))} \cup { e - 1 : e \in FieldEnds(f) }

WithLen(f, l) ==
    [ header |-> f.header, n_vertices |-> f.n_vertices,
      block_header |-> f.block_header, n_faces |-> f.n_faces,
      n_submeshes |-> f.n_submeshes, subs |-> f.subs, len |-> l ]

OpenFile ==
    /\ Fresh
    /\ conv.op = "none"
    /\ stream = None
    /\ \E f \in StreamFields :
          /\ Len(f.subs) <= f.n_submeshes
          /\ \E l \in StreamLens(f) : stream' = Some(WithLen(f, l))
    /\ UNCHANGED mesh
    /\ UNCHANGED <<mc_vars, node_vars>>

LoadFile ==
    /\ stream # None
    /\ mesh.status = "none"
    /\ mesh' = load_file(stream[1])
    /\ UNCHANGED stream
    /\ UNCHANGED <<mc_vars, node_vars>>

NextMesh == OpenFile \/ LoadFile

SpecMesh == Init /\ [][NextMesh]_vars

\* C19: load_file returns Ok or Err(MeshParseError) for every byte stream,
\* also for one that ends inside the header, the block header or the
\* submesh padding and for one whose submesh range reaches past the face
\* list; it never aborts.
C19_LoadFileNeverAborts ==
    mesh.status \in {"none", "Ok", "Err"}

Loaded == stream # None /\ mesh.status # "none"

\* the file holds every field it declares
Complete(s) == s.len = Max(FieldEnds(s)) /\ Len(s.subs) = s.n_submeshes

\* nothing but a marker can stop the decoding of the file before the
\* padding of its submesh
ReachesPadding(s) ==
    /\ Complete(s)
    /\ s.n_faces % 3 = 0
    /\ Len(s.subs) = 1
    /\ s.subs[1].pos % 3 = 0

MarkerVariants ==
    {"InvalidHeader", "InvalidBlockHeader", "WrongSubmeshPadding",
     "InvalidSubmeshMaterial"}

\* the first marker of a file that does not match, in stream order
FirstMismatch(s) ==
    IF s.header # HEADER THEN "InvalidHeader"
    ELSE IF s.block_header # BLOCK_HEADER THEN "InvalidBlockHeader"
    ELSE IF s.subs # << >> /\ s.subs[1].padding # PADDING THEN "WrongSubmeshPadding"
    ELSE IF s.subs # << >> /\ s.subs[1].material \notin 0..3 THEN "InvalidSubmeshMaterial"
    ELSE "none"

\* the value a file holds at a marker
MarkerValue(s, variant) ==
    CASE variant = "InvalidHeader" -> s.header
      [] variant = "InvalidBlockHeader" -> s.block_header
      [] variant = "WrongSubmeshPadding" -> s.subs[1].padding
      [] variant = "InvalidSubmeshMaterial" -> s.subs[1].material

\* decoding stops at the first marker that does not match, with the error
\* of that marker and the value read
StopsAtFirstMismatch ==
    Loaded =>
        /\ (mesh.status = "Err" /\ mesh.variant \in MarkerVariants) =>
              /\ mesh.variant = FirstMismatch(stream[1])
              /\ mesh.actual = Some(MarkerValue(stream[1], mesh.variant))
        /\ (ReachesPadding(stream[1]) /\ FirstMismatch(stream[1]) # "none") =>
              (mesh.status = "Err" /\ mesh.variant = FirstMismatch(stream[1]))

ReachesFaceCount(s) ==
    /\ Complete(s)
    /\ s.header = HEADER
    /\ s.block_header = BLOCK_HEADER

\* C21: a count of face indices that is not a multiple of 3 and a submesh
\* start that is not a multiple of 3 each make load_file fail; a submesh
\* length that is not a multiple of 3 never does, and the submesh gets
\* floor(length / 3) triangles.
C21_DivisibilityAsymmetry ==
    Loaded =>
        LET s == stream[1] IN
        /\ (ReachesFaceCount(s) /\ s.n_faces % 3 # 0) =>
              mesh = MeshErr("InvalidFaceCount", None, Some(s.n_faces))
        /\ (ReachesFaceCount(s) /\ s.n_faces % 3 = 0 /\ Len(s.subs) = 1
              /\ s.subs[1].pos % 3 # 0) =>
              mesh = MeshErr("InvalidSubmeshPosition", None, Some(s.subs[1].pos))
        /\ mesh.status = "Ok" =>
              /\ s.n_faces % 3 = 0
              /\ \A i \in 1..Len(s.subs) : s.subs[i].pos % 3 = 0
        /\ mesh.variant # "InvalidTriangleCount"
        /\ (ReachesPadding(s) /\ FirstMismatch(s) = "none"
              /\ s.subs[1].pos \div 3 + s.subs[1].n_tris \div 3 <= s.n_faces \div 3) =>
              /\ mesh.status = "Ok"
              /\ mesh.value.submeshes[1].n_tris = s.subs[1].n_tris \div 3
              /\ Len(mesh.value.submeshes[1].tris) = s.subs[1].n_tris \div 3

\* a file whose submesh length is 4 has been decoded, with one triangle
C21_Witness ==
    /\ Loaded
    /\ mesh.status = "Ok"
    /\ Len(stream[1].subs) = 1
    /\ stream[1].subs[1].n_tris % 3 # 0
    /\ Len(mesh.value.submeshes[1].tris) = 1

SubmeshesAt(s) ==
    8 + 2 + 4 + VertexBytes * s.n_vertices + 4 + FaceBytes * (s.n_faces \div 3) + 2

\* C27: after the two bounding-box corners the decoder reads exactly one
\* u16, the skip count, and advances by skip - 2 and then by 14 bytes: one
\* submesh record takes 36 + 2 + (skip - 2) + 14 bytes.
C27_SubmeshRecordSize ==
    (Loaded /\ mesh.status = "Ok" /\ Len(stream[1].subs) = 1) =>
        mesh.value.cursor - SubmeshesAt(stream[1])
          = 36 + 2 + (stream[1].subs[1].skip - 2) + 14

\* C27 (amended): after the two corners the decoder reads two u16, one of
\* unknown meaning and then the skip count, and advances by skip - 2 and
\* then by 14 bytes: one submesh record takes 36 + 2 + 2 + (skip - 2) + 14
\* bytes.
C27_SubmeshRecordSizeTwoU16 ==
    (Loaded /\ mesh.status = "Ok") =>
        /\ Len(stream[1].subs) = 0 => mesh.value.cursor = SubmeshesAt(stream[1])
        /\ Len(stream[1].subs) = 1 =>
              mesh.value.cursor - SubmeshesAt(stream[1])
                = 36 + 2 + 2 + (stream[1].subs[1].skip - 2) + 14

\* a file with a submesh whose skip count is 4 has been decoded
C27_Witness ==
    /\ Loaded
    /\ mesh.status = "Ok"
    /\ Len(stream[1].subs) = 1
    /\ stream[1].subs[1].skip = 4
    /\ mesh.value.cursor = SubmeshesAt(stream[1]) + 56

(***************************************************************************)
(* Wiring: IO nodes with their bridge components, components with their    *)
(* input slots, connect                                                    *)
(*                                                                         *)
(* A component is [id, component, inputs]: its kind and the connection of  *)
(* each of its input slots in declaration order (what inputs_mut() hands   *)
(* out).  An IO node made by add_io is [design, logic] with the design's   *)
(* node_id, typ and mode and the bridge component as logic.                *)
(***************************************************************************)
\* the components and IO nodes one Microcontroller holds at most
MaxWire == 2

\* enum Type
SignalTypes ==
    { "OnOff", "Number", "_Power", "_Fluid", "_Electric",
      "Composite", "Video", "Audio", "_Rope" }

\* enum IONodeType
IONodeTypes == { "Input", "Output" }

\* the kinds handed to add_component: one without input, one with two
ComponentTypes == { "ConstantNum", "NumericalJunction" }

\* the match of add_io with both fallback arms giving NumberIn
bridge_component_input_only(typ, mode) ==
    CASE typ = "OnOff"     /\ mode = "Input"  -> "OnOffIn"
      [] typ = "Composite" /\ mode = "Input"  -> "CompositeIn"
      [] typ = "Video"     /\ mode = "Input"  -> "VideoIn"
      [] typ = "Audio"     /\ mode = "Input"  -> "AudioIn"
      [] typ = "OnOff"     /\ mode = "Output" -> "OnOffOut"
      [] typ = "Composite" /\ mode = "Output" -> "CompositeOut"
      [] typ = "Video"     /\ mode = "Output" -> "VideoOut"
      [] typ = "Audio"     /\ mode = "Output" -> "AudioOut"
      [] OTHER -> "NumberIn"

\* `match (typ, mode)` of add_io: the arms in source order, the two
\* `(Type::Number | _, ..)` arms taking every typ without an arm of its own
bridge_component(typ, mode) ==
    IF typ = "OnOff" /\ mode = "Input" THEN "OnOffIn"
    ELSE IF typ = "Composite" /\ mode = "Input" THEN "CompositeIn"
    ELSE IF typ = "Video" /\ mode = "Input" THEN "VideoIn"
    ELSE IF typ = "Audio" /\ mode = "Input" THEN "AudioIn"
    ELSE IF mode = "Input" THEN "NumberIn"
    ELSE IF typ = "OnOff" /\ mode = "Output" THEN "OnOffOut"
    ELSE IF typ = "Composite" /\ mode = "Output" THEN "CompositeOut"
    ELSE IF typ = "Video" /\ mode = "Output" THEN "VideoOut"
    ELSE IF typ = "Audio" /\ mode = "Output" THEN "AudioOut"
    ELSE "NumberOut"

\* the number of input slots of a kind: inputs_mut().len()
inputs_len(component) ==
    CASE component = "ConstantNum" -> 0
      [] component = "NumericalJunction" -> 2
      [] OTHER -> 1

\* a kind with every input slot at TypedInputConnection::default()
unconnected(component) == [ i \in 1..inputs_len(component) |-> None ]

\* add_component(component)
add_component_of(m, component) ==
    LET m1 == add_component(m)
        l  == Len(m1.components)
    IN [ m1 EXCEPT !.components[l] =
            [ id |-> m1.components[l].id, component |-> component,
              inputs |-> unconnected(component) ] ]

\* add_io(label, description, typ, mode)
add_io_of(m, typ, mode) ==
    LET m1 == add_io(m)
        l  == Len(m1.io)
    IN [ m1 EXCEPT !.io[l] =
            [ design |-> [ node_id |-> m1.io[l].design.node_id,
                           typ |-> typ, mode |-> mode ],
              logic  |-> [ id |-> m1.io[l].logic.id,
                           component |-> bridge_component(typ, mode),
                           inputs |-> unconnected(bridge_component(typ, mode)) ] ] ]

\* components_mut(): the regular components, then the bridge component of
\* each IO node
components_mut(m) == m.components \o [ i \in 1..Len(m.io) |-> m.io[i].logic ]

\* get_connection_mut: the first component of components_mut() with the id,
\* then the slot node_index of its inputs; None when there is no such
\* component or it has no such slot.  Some holds the place of the slot: the
\* position k in components_mut() and the 1-based slot.
get_connection_mut(m, src) ==
    LET k == PositionOfId(components_mut(m), src.component_id) IN
    IF k = 0 THEN None
    ELSE IF src.node_index < Len(components_mut(m)[k].inputs)
         THEN Some([k |-> k, slot |-> src.node_index + 1])
         ELSE None

\* `*dst = Some(src.clone())` through the reference get_connection_mut gave
assign_slot(m, place, value) ==
    IF place.k <= Len(m.components)
    THEN [ m EXCEPT !.components[place.k].inputs =
              [ i \in 1..Len(@) |-> IF i = place.slot THEN value ELSE @[i] ] ]
    ELSE [ m EXCEPT !.io[place.k - Len(m.components)].logic.inputs =
              [ i \in 1..Len(@) |-> IF i = place.slot THEN value ELSE @[i] ] ]

\* connect(src, dst)
connect(m, src, dst) ==
    LET place == get_connection_mut(m, dst) IN
    IF place # None
    THEN [mc |-> assign_slot(m, place[1], Some(src)), ret |-> "Ok"]
    ELSE [mc |-> m, ret |-> "Err"]

\* the connections handed to connect as src
SrcVals == { [component_id |-> 2, node_index |-> 1] }

\* the connections handed to connect as dst
DstVals == [ component_id : 1..(MaxWire + 1), node_index : 0..2 ]

\* documents with one regular component, one IO node and its bridge
\* component; the bridge component's id is the regular component's or the
\* next one
WireDocs ==
    { [ width |-> 1, length |-> 1,
        id_counter |-> Some(2), id_counter_node |-> Some(1),
        nodes |-> << [id |-> 1, component_id |-> b] >>,
        components |-> << [ id |-> 1, component |-> c,
                            inputs |-> unconnected(c) ] >>,
        components_bridge |-> << [ id |-> b, component |-> bc,
                                   inputs |-> unconnected(bc) ] >> ] :
      b \in {1, 2}, c \in ComponentTypes, bc \in {"NumberIn", "OnOffOut"} }

FromXmlWire == FromXmlIn(WireDocs)

AddComponentOf ==
    /\ Alive
    /\ mc.id_counter < MaxWire
    /\ \E component \in ComponentTypes :
          /\ mc' = add_component_of(mc, component)
          /\ last' = Call("add_component", "Ok", Ok, mc'.id_counter,
                          Some([component |-> component]), None)
    /\ issued_c' = issued_c \cup {mc'.id_counter}
    /\ UNCHANGED <<issued_n, retired_c, retired_n>>
    /\ UNCHANGED <<node_vars, mesh_vars>>

AddIoIn(typs, modes) ==
    /\ Alive
    /\ mc.id_counter < MaxWire
    /\ unwrap_or(mc.id_counter_node, 0) < MaxWire
    /\ \E typ \in typs, mode \in modes :
          /\ mc' = add_io_of(mc, typ, mode)
          /\ last' = Call("add_io", "Ok", Ok, mc'.id_counter_node[1],
                          Some([typ |-> typ, mode |-> mode]), None)
    /\ issued_c' = issued_c \cup {mc'.id_counter}
    /\ issued_n' = issued_n \cup {mc'.id_counter_node[1]}
    /\ UNCHANGED <<retired_c, retired_n>>
    /\ UNCHANGED <<node_vars, mesh_vars>>

\* add_io with every typ and mode
AddIoOf == AddIoIn(SignalTypes, IONodeTypes)

\* add_io of Number outputs: connect looks at no typ and no mode
AddIoNumber == AddIoIn({"Number"}, {"Output"})

Connect ==
    /\ Alive
    /\ \E src \in SrcVals, dst \in DstVals :
          LET r == connect(mc, src, dst) IN
          /\ mc' = r.mc
          /\ last' = Call("connect", r.ret, Ok, dst.component_id,
                          Some([src |-> src, dst |-> dst]), None)
    /\ UNCHANGED <<issued_c, issued_n, retired_c, retired_n>>
    /\ UNCHANGED <<node_vars, mesh_vars>>

\* IO nodes of every typ and mode added to and removed from a new
\* Microcontroller
NextIo ==
    \/ New
    \/ AddIoOf
    \/ RemoveIo
    \/ RemoveIoId

SpecIo == Init /\ [][NextIo]_vars

\* a Microcontroller built with new, filled and wired through its methods
NextWire ==
    \/ New
    \/ AddComponentOf
    \/ AddIoNumber
    \/ RemoveComponent
    \/ RemoveComponentId
    \/ RemoveIo
    \/ RemoveIoId
    \/ Connect

SpecWire == Init /\ [][NextWire]_vars

\* a Microcontroller built with new or read from a document, then wired
NextWireDoc ==
    \/ New
    \/ FromXmlWire
    \/ AddComponentOf
    \/ AddIoNumber
    \/ RemoveComponent
    \/ RemoveComponentId
    \/ RemoveIo
    \/ RemoveIoId
    \/ Connect

SpecWireDoc == Init /\ [][NextWireDoc]_vars

\* the signal kind and the direction a bridge kind stands for
SignalOf(component) ==
    CASE component \in {"OnOffIn", "OnOffOut"} -> "OnOff"
      [] component \in {"NumberIn", "NumberOut"} -> "Number"
      [] component \in {"CompositeIn", "CompositeOut"} -> "Composite"
      [] component \in {"VideoIn", "VideoOut"} -> "Video"
      [] component \in {"AudioIn", "AudioOut"} -> "Audio"

DirectionOf(component) ==
    IF component \in {"OnOffIn", "NumberIn", "CompositeIn", "VideoIn", "AudioIn"}
    THEN "Input" ELSE "Output"

\* the IO node an add_io step appended
NewIoNode == mc'.io[Len(mc'.io)]

\* an add_io step appends one IO node whose bridge component carries the
\* newly allocated component id, met by no other bridge component, and
\* appends that id to components_bridge_order
AddIoAllocates ==
    /\ Len(mc'.io) = Len(mc.io) + 1
    /\ \A i \in 1..Len(mc.io) : mc'.io[i] = mc.io[i]
    /\ NewIoNode.design.typ = last'.doc[1].typ
    /\ NewIoNode.design.mode = last'.doc[1].mode
    /\ NewIoNode.logic.id = mc.id_counter + 1
    /\ mc'.id_counter = mc.id_counter + 1
    /\ \A i \in 1..Len(mc.io) : mc.io[i].logic.id # NewIoNode.logic.id
    /\ mc'.components_bridge_order
          = Append(mc.components_bridge_order, NewIoNode.logic.id)

\* C24: every IO node created by add_io(label, description, typ, mode) is
\* correlated with exactly one new bridge component whose kind has the
\* signal kind of the design entry's typ and the direction of its mode, for
\* every typ and mode; the bridge's id is the newly allocated component id
\* and is appended to components_bridge_order.
C24_BridgeMatchesDesign ==
    [][ last'.op = "add_io" =>
          /\ AddIoAllocates
          /\ SignalOf(NewIoNode.logic.component) = NewIoNode.design.typ
          /\ DirectionOf(NewIoNode.logic.component) = NewIoNode.design.mode ]_vars

\* C24 (amended): the bridge component of a new IO node has the direction of
\* the design entry's mode for every typ and mode; it has the signal kind
\* of the design entry's typ when that is OnOff, Number, Composite, Video or
\* Audio, and is a Number bridge for _Power, _Fluid, _Electric and _Rope; its
\* id is the newly allocated component id, appended to
\* components_bridge_order.
C24_BridgeMatchesDesignOrNumber ==
    [][ last'.op = "add_io" =>
          /\ AddIoAllocates
          /\ DirectionOf(NewIoNode.logic.component) = NewIoNode.design.mode
          /\ SignalOf(NewIoNode.logic.component) =
                IF NewIoNode.design.typ
                      \in {"OnOff", "Number", "Composite", "Video", "Audio"}
                THEN NewIoNode.design.typ ELSE "Number" ]_vars

\* a second IO node, a _Rope output, has been added and got a NumberOut
\* bridge
C24_Witness ==
    /\ mc # NoMC
    /\ last.op = "add_io"
    /\ Len(mc.io) = 2
    /\ mc.io[2].design.typ = "_Rope"
    /\ mc.io[2].design.mode = "Output"
    /\ mc.io[2].logic.component = "NumberOut"
    /\ mc.io[2].logic.id = mc.id_counter

\* C25: in every state reachable from Microcontroller::new through
\* add_component, add_io, remove_component, remove_component_id, remove_io,
\* remove_io_id and connect, the ids of all regular components and all
\* bridge components are pairwise distinct and lie in 1..=id_counter, and
\* the IO node ids are pairwise distinct and lie in 1..=id_counter_node.
C25_IdsDistinctInRange ==
    mc # NoMC =>
        LET ids == ComponentIds(mc) \o BridgeIds(mc) IN
        /\ Distinct(ids)
        /\ \A i \in 1..Len(ids) : ids[i] >= 1 /\ ids[i] <= mc.id_counter
        /\ Distinct(IoIds(mc))
        /\ \A i \in 1..Len(mc.io) :
              /\ mc.io[i].design.node_id >= 1
              /\ mc.io[i].design.node_id <= unwrap_or(mc.id_counter_node, 0)

\* an IO node added first and a component added after it are held, and
\* connect has filled the bridge component's input
C25_Witness ==
    /\ mc # NoMC
    /\ last.op = "connect" /\ last.status = "Ok"
    /\ Len(mc.components) = 1 /\ Len(mc.io) = 1
    /\ mc.io[1].logic.id = 1 /\ mc.components[1].id = 2
    /\ mc.io[1].logic.inputs[1] # None
    /\ mc.id_counter = 2

\* the position of the IO node a remove_io / remove_io_id call addresses,
\* 0 when it addresses none
AddressedIo ==
    IF last'.op = "remove_io_id" THEN PositionOfNodeId(mc.io, last'.id)
    ELSE IF last'.id >= 1 /\ last'.id <= Len(mc.io) THEN last'.id ELSE 0

\* C26: for every microcontroller that passes validate(), one produced by
\* from_xml_str included, remove_io_id(id) and remove_io(index) remove at
\* most the addressed IO node together with its bridge component and leave
\* the list of regular components and id_counter unchanged; when no IO node
\* matches, nothing changes.
C26_RemoveIoFrame ==
    [][ ( /\ last'.op \in {"remove_io", "remove_io_id"}
          /\ last'.status # "panic"
          /\ validate(mc) = Ok ) =>
          /\ mc'.components = mc.components
          /\ mc'.id_counter = mc.id_counter
          /\ IF AddressedIo = 0 THEN mc' = mc
             ELSE mc'.io = RemoveAt(mc.io, AddressedIo) ]_vars

\* the components and bridge components that have the id and the slot a
\* connect call names as dst
Addressed(m, dst) ==
    { k \in 1..Len(components_mut(m)) :
         /\ components_mut(m)[k].id = dst.component_id
         /\ dst.node_index < Len(components_mut(m)[k].inputs) }

\* C23: connect(src, dst) returns Ok if and only if a component or bridge
\* component with id dst.component_id exists and dst.node_index is less than
\* its number of input slots; on Ok exactly that input slot becomes
\* Some(src) and every other slot, component, IO node and counter is
\* unchanged; on Err the whole microcontroller is unchanged.
C23_ConnectContract ==
    [][ last'.op = "connect" =>
          LET src == last'.doc[1].src
              dst == last'.doc[1].dst
          IN /\ last'.status = "Ok" <=> Addressed(mc, dst) # {}
             /\ last'.status = "Ok" =>
                   \E k \in Addressed(mc, dst) :
                      mc' = assign_slot(mc, [k |-> k, slot |-> dst.node_index + 1],
                                        Some(src))
             /\ last'.status = "Err" => mc' = mc ]_vars

(***************************************************************************)
(* duplicate_by_key on the ordered maps of a given length                  *)
(***************************************************************************)
\* the entries a map holds at most
MaxMapLen == 3

\* the keys of the maps: two tags and the key handed over as `reserved`
MapKeys == { In(1), Out(1), Reserved }

\* the entries of the maps: a key and one of two values
MapEntries == [ k : MapKeys, connection : {None, Some(1)}, v : {None} ]

\* a map and the key to duplicate are chosen
TakeMap ==
    /\ Fresh /\ conv.op = "none" /\ stream = None
    /\ node = None /\ tree = None
    /\ \E n \in 0..MaxMapLen :
          \E o \in [1..n -> MapEntries], dup \in {In(1), Out(1)} :
             node' = Some([map |-> o, dup |-> dup])
    /\ UNCHANGED <<tree, conv>>
    /\ UNCHANGED <<mc_vars, mesh_vars>>

\* o.duplicate_by_key(dup, "__reserved")
DuplicateByKey ==
    /\ Fresh /\ conv.op = "none"
    /\ node # None /\ tree = None
    /\ tree' = Some(duplicate_by_key(node[1].map, node[1].dup, Reserved))
    /\ conv' = [conv EXCEPT !.op = "duplicate_by_key"]
    /\ UNCHANGED node
    /\ UNCHANGED <<mc_vars, mesh_vars>>

NextMap ==
    \/ TakeMap
    \/ DuplicateByKey

SpecMap == Init /\ [][NextMap]_vars

\* duplicate_by_key has been applied to the map taken
Duplicated == conv.op = "duplicate_by_key" /\ node # None /\ tree # None

\* r is o with a copy of the value of entry i placed right after it
CopyAfter(o, r, i) ==
    /\ Len(r) = Len(o) + 1
    /\ \A j \in 1..i : r[j] = o[j]
    /\ r[i + 1].connection = o[i].connection /\ r[i + 1].v = o[i].v
    /\ \A j \in (i + 1)..Len(o) : r[j + 1] = o[j]

DistinctKeys(o) == \A i, j \in 1..Len(o) : i # j => o[i].k # o[j].k

ToggleMaps ==
    { Map(PushToToggle, 0, 0, 0, o) :
        o \in SeqsUpTo([ k : DocTags(PushToToggle),
                         connection : {None, Some(1)},
                         v : {None, Some("default"), Some("custom")} ],
                       Len(io_def(PushToToggle))) }

\* the PushToToggle values built with new() / empty() / default()
BuiltToggles ==
    { n \in ToggleNodes :
        \A i \in 1..Len(n.slots) : ~ n.slots[i].force_visible }

ReadToggle ==
    /\ Fresh
    /\ conv.op = "none" /\ stream = None
    /\ \E m \in ToggleMaps :
          /\ tree' = Some(m)
          /\ conv' = Conv("read", "Ok", Some(m), 0)
    /\ node' = None
    /\ UNCHANGED <<mc_vars, mesh_vars>>

BuildToggle ==
    /\ Fresh
    /\ conv.op = "none" /\ stream = None
    /\ \E n \in BuiltToggles :
          /\ node' = Some(n)
          /\ conv' = Conv("build", "Ok", Some(n), 0)
    /\ tree' = None
    /\ UNCHANGED <<mc_vars, mesh_vars>>

\* the input slots of the node held
InputSlots == { i \in 1..Len(node[1].slots) : io_def(node[1].type)[i].tag.name = "in" }

\* TypedInputConnection::set on an input slot of the node held
SetSlot ==
    /\ conv.op \in {"build", "components_deserialize"}
    /\ conv.status = "Ok"
    /\ \E i \in InputSlots :
          node' = Some([node[1] EXCEPT !.slots[i].connection = Some(1)])
    /\ UNCHANGED <<tree, conv>>
    /\ UNCHANGED <<mc_vars, mesh_vars>>

\* TypedInputConnection::clear on an input slot of the node held
ClearSlot ==
    /\ conv.op \in {"build", "components_deserialize"}
    /\ conv.status = "Ok"
    /\ \E i \in InputSlots :
          node' = Some([node[1] EXCEPT !.slots[i].connection = None])
    /\ UNCHANGED <<tree, conv>>
    /\ UNCHANGED <<mc_vars, mesh_vars>>

NextSlot ==
    \/ ReadToggle
    \/ BuildToggle
    \/ ComponentsDeserialize
    \/ SetSlot
    \/ ClearSlot
    \/ SerToMap

SpecSlot == Init /\ [][NextSlot]_vars

\* the node held has been written for the first time since it was read
\* from a document / since it was built
WrittenAfterRead ==
    conv.op = "ser_to_map" /\ conv.status = "Ok" /\ conv.n = 2 /\ ~ IsNode(conv.src[1])

WrittenAfterBuild ==
    conv.op = "ser_to_map" /\ conv.status = "Ok" /\ conv.n = 1 /\ IsNode(conv.src[1])

\* slot i of the node held has no connection and no legacy payload
Bare(i) == node[1].slots[i].connection = None /\ node[1].slots[i].v = None

\* C29: for a kind without a quirk patch, a slot whose tag was present in
\* the parsed document (even as an empty tag) is always re-emitted on write,
\* also after its connection is cleared, and a slot that was absent from the
\* document or created by empty() / default() and has no connection and no
\* legacy payload is never emitted.
C29_SlotPresence ==
    /\ WrittenAfterRead =>
          \A i \in 1..Len(io_def(PushToToggle)) :
             LET tag == io_def(PushToToggle)[i].tag IN
             /\ tag \in Keys(conv.src[1].object) => tag \in Keys(tree[1].object)
             /\ (tag \notin Keys(conv.src[1].object) /\ Bare(i))
                   => tag \notin Keys(tree[1].object)
    /\ WrittenAfterBuild =>
          \A i \in 1..Len(io_def(PushToToggle)) :
             Bare(i) => io_def(PushToToggle)[i].tag \notin Keys(tree[1].object)

\* a document whose in1 tag carries a connection and whose out1 tag is
\* absent has been read, the connection has been cleared and the node has
\* been written: in1 is there, out1 is not
C29_Witness ==
    /\ WrittenAfterRead
    /\ Keys(conv.src[1].object) = {In(1)}
    /\ conv.src[1].object[1].connection = Some(1)
    /\ node[1].slots[1].connection = None
    /\ Keys(tree[1].object) = {In(1)}

(***************************************************************************)
(* component::instance::Color and its text form                            *)
(*                                                                         *)
(* A text is the sequence of its hexadecimal digits, each 0..15.           *)
(***************************************************************************)
\* the channel values tried: around the one-digit / two-digit border of
\* {:x}, and the ends of u8
ChannelVals == {0, 1, 15, 16, 17, 160, 255}

\* format!("{:x}", n) of a u8: lower-case hexadecimal, no padding
LowerHex(n) == IF n < 16 THEN << n >> ELSE << n \div 16, n % 16 >>

\* From<Color> for String: format!("{:x}{:x}{:x}", r, g, b)
color_into_string(val) == LowerHex(val.r) \o LowerHex(val.g) \o LowerHex(val.b)

\* u32::from_str_radix(value, 16) on a text of at most six digits: the
\* value, which fits a u32
RECURSIVE from_str_radix(_)
from_str_radix(value) ==
    IF Len(value) = 0 THEN 0
    ELSE from_str_radix(SubSeq(value, 1, Len(value) - 1)) * 16 + value[Len(value)]

\* TryFrom<String> for Color
color_try_from(value) ==
    LET v == from_str_radix(value) IN
    [ r |-> (v \div 65536) % 256, g |-> (v \div 256) % 256, b |-> v % 256 ]

\* a Color value is built through its public fields
TakeColor ==
    /\ Fresh
    /\ conv.op = "none" /\ stream = None
    /\ \E r \in ChannelVals, g \in ChannelVals, b \in ChannelVals :
          /\ node' = Some([r |-> r, g |-> g, b |-> b])
          /\ conv' = Conv("color", "Ok", Some([r |-> r, g |-> g, b |-> b]), 0)
    /\ tree' = None
    /\ UNCHANGED <<mc_vars, mesh_vars>>

\* String::from(color)
ColorIntoString ==
    /\ conv.op = "color"
    /\ tree' = Some(color_into_string(node[1]))
    /\ conv' = [conv EXCEPT !.op = "into_string", !.n = 1]
    /\ UNCHANGED node
    /\ UNCHANGED <<mc_vars, mesh_vars>>

\* Color::try_from(text)
ColorTryFrom ==
    /\ conv.op = "into_string"
    /\ node' = Some(color_try_from(tree[1]))
    /\ conv' = [conv EXCEPT !.op = "try_from", !.n = 2]
    /\ UNCHANGED tree
    /\ UNCHANGED <<mc_vars, mesh_vars>>

NextColor ==
    \/ TakeColor
    \/ ColorIntoString
    \/ ColorTryFrom

SpecColor == Init /\ [][NextColor]_vars

\* C30: for every Color (r, g, b) with each channel in 0..=255, parsing the
\* hexadecimal string produced by String::from(Color) with Color::try_from
\* returns the same (r, g, b).
C30_ColorRoundTrip ==
    conv.op = "try_from" => node[1] = conv.src[1]

====
